---- MODULE Spec2Model ----
(***************************************************************************)
(* Model of the SAML-OIDC bridge of canonical/identity-saml-provider       *)
(* (src/internal/provider/server.go, src/internal/provider/database.go).   *)
(*                                                                         *)
(* Strings that the code takes apart or escapes (the OIDC state, query     *)
(* values, SAMLRequest payloads) are sequences of one-character tokens.    *)
(* net/http runs every request in its own goroutine: a handler is a worker *)
(* whose steps are its accesses to the shared stores, in program order.    *)
(* The clock counts ticks of ten minutes.                                  *)
(***************************************************************************)
EXTENDS Integers, Sequences, FiniteSets, TLC

VARIABLES now, sessions, serviceProviders, pendingRequests, pc, loc, resp, cookies, taken,
          issued

vars == <<now, sessions, serviceProviders, pendingRequests, pc, loc, resp, cookies, taken,
          issued>>

----------------------------------------------------------------------------
(* Bounds *)

MaxTime == 2

MaxTicks == 1

Workers == {"w1", "w2"}

IDs == {<<"a">>, <<"b">>}

RelayStates == {<<>>, <<"r", ":", "&">>}

Emails == {"u1", "u2"}

Issuers == {"s", "t"}

\* Longest request ID and RelayState of the state round trip
MaxLen == 2

----------------------------------------------------------------------------
(* Program constants *)

\* server.go:232, time.Now().Add(10 * time.Minute): one tick of the clock
SessionLifetime == 1

StatusFound == 302
StatusBadRequest == 400
StatusForbidden == 403
StatusInternalServerError == 500
StatusMethodNotAllowed == 405
StatusCreated == 201

HTTPPostBinding == "urn:oasis:names:tc:SAML:2.0:bindings:HTTP-POST"
HTTPRedirectBinding == "urn:oasis:names:tc:SAML:2.0:bindings:HTTP-Redirect"

----------------------------------------------------------------------------
(* Values *)

NoSession == [ID |-> <<>>]
NoCookie == <<"-">>
NoPending == [present |-> FALSE, samlRequest |-> <<>>, relayState |-> <<>>]
NoURL == [path |-> "", rawQuery |-> <<>>, state |-> <<>>]
NoInput == [method |-> "none"]
NoDescriptor == [EntityID |-> ""]
NoBody == [status |-> ""]

\* server.go:228, fmt.Sprintf("_%d", time.Now().UnixNano())
SessionIdOf(t) == <<"_", t>>

BogusId == <<"_", -1>>

\* A SAMLRequest payload as the SP sent it, written as the ID and the Issuer
\* of the AuthnRequest it encodes, with the padding of its base64 text.
Payloads == {<<"q", id[1], i, "=">> : id \in IDs, i \in Issuers}

PayloadID(p) == <<p[2]>>
PayloadIssuer(p) == p[3]

----------------------------------------------------------------------------
(* String helpers *)

RECURSIVE IndexOf(_, _, _)
IndexOf(s, c, i) ==
    IF i > Len(s) THEN 0
    ELSE IF s[i] = c THEN i
    ELSE IndexOf(s, c, i + 1)

\* strings.SplitN(state, ":", 2)
SplitN2(s) ==
    LET i == IndexOf(s, ":", 1) IN
    IF i = 0 THEN <<s>>
    ELSE <<SubSeq(s, 1, i - 1), SubSeq(s, i + 1, Len(s))>>

\* url.QueryEscape on the characters of the model's alphabet
EscapeChar(c) ==
    CASE c = ":" -> "%3A"
      [] c = "&" -> "%26"
      [] c = "=" -> "%3D"
      [] OTHER -> c

RECURSIVE QueryEscape(_)
QueryEscape(s) ==
    IF s = <<>> THEN <<>>
    ELSE <<EscapeChar(Head(s))>> \o QueryEscape(Tail(s))

UnescapeChar(c) ==
    CASE c = "%3A" -> ":"
      [] c = "%26" -> "&"
      [] c = "%3D" -> "="
      [] OTHER -> c

RECURSIVE QueryUnescape(_)
QueryUnescape(s) ==
    IF s = <<>> THEN <<>>
    ELSE <<UnescapeChar(Head(s))>> \o QueryUnescape(Tail(s))

\* url.Values.Encode for the two keys the callback sets: keys are emitted in
\* sorted order, "RelayState" before "SAMLRequest".
Encode(hasRelay, relay, saml) ==
    (IF hasRelay THEN <<"RelayState", "=">> \o QueryEscape(relay) \o <<"&">> ELSE <<>>)
        \o <<"SAMLRequest", "=">> \o QueryEscape(saml)

\* The part of a raw query that belongs to key k (url.ParseQuery and
\* Values.Get): the text between "k=" and the next "&", unescaped;
\* <<>> when the key does not occur.
RECURSIVE QueryGetFrom(_, _, _)
QueryGetFrom(q, k, i) ==
    IF i > Len(q) THEN <<>>
    ELSE LET rest == SubSeq(q, i, Len(q))
             amp  == IndexOf(rest, "&", 1)
             pair == IF amp = 0 THEN rest ELSE SubSeq(rest, 1, amp - 1)
             next == IF amp = 0 THEN Len(q) + 1 ELSE i + amp
         IN IF Len(pair) >= 2 /\ pair[1] = k /\ pair[2] = "="
            THEN QueryUnescape(SubSeq(pair, 3, Len(pair)))
            ELSE QueryGetFrom(q, k, next)

QueryGet(q, k) == QueryGetFrom(q, k, 1)

RECURSIVE QueryHasFrom(_, _, _)
QueryHasFrom(q, k, i) ==
    IF i > Len(q) THEN FALSE
    ELSE LET rest == SubSeq(q, i, Len(q))
             amp  == IndexOf(rest, "&", 1)
             pair == IF amp = 0 THEN rest ELSE SubSeq(rest, 1, amp - 1)
             next == IF amp = 0 THEN Len(q) + 1 ELSE i + amp
         IN (Len(pair) >= 1 /\ pair[1] = k) \/ QueryHasFrom(q, k, next)

QueryHas(q, k) == QueryHasFrom(q, k, 1)

----------------------------------------------------------------------------
(* Database (src/internal/provider/database.go) *)

\* Mutant: the comparison lets a session through at the instant it expires
GetSessionAtExpiry(rows, t, sessionID, dbErr) ==
    IF dbErr THEN [ID |-> <<>>]
    ELSE IF sessionID \in DOMAIN rows /\ rows[sessionID].ExpireTime >= t
         THEN rows[sessionID]
         ELSE [ID |-> <<>>]

\* Mutant: the query forgets the expiry
GetSessionNoExpiry(rows, t, sessionID, dbErr) ==
    IF dbErr THEN [ID |-> <<>>]
    ELSE IF sessionID \in DOMAIN rows THEN rows[sessionID] ELSE [ID |-> <<>>]

\* SELECT ... FROM sessions WHERE id = $1 AND expire_time > NOW();
\* any query error, "no rows" included, yields nil.
GetSession(rows, t, sessionID, dbErr) ==
    IF dbErr THEN NoSession
    ELSE IF sessionID \in DOMAIN rows /\ rows[sessionID].ExpireTime > t
         THEN rows[sessionID]
         ELSE NoSession

\* Mutant: the statement writes no row
SaveSessionLost(rows, session) == rows

\* INSERT ... ON CONFLICT (id) DO UPDATE SET every column
SaveSession(rows, session) ==
    [id \in DOMAIN rows \cup {session.ID} |->
        IF id = session.ID THEN session ELSE rows[id]]

\* Mutant: the sweep also deletes the rows that expire at this instant
CleanupExpiredSessionsAtExpiry(rows, t) ==
    [id \in {i \in DOMAIN rows : ~(rows[i].ExpireTime <= t)} |-> rows[id]]

\* Mutant: the comparison of the sweep is turned around
CleanupExpiredSessionsTurned(rows, t) ==
    [id \in {i \in DOMAIN rows : ~(rows[i].ExpireTime > t)} |-> rows[id]]

\* DELETE FROM sessions WHERE expire_time < NOW()
CleanupExpiredSessions(rows, t) ==
    [id \in {i \in DOMAIN rows : ~(rows[i].ExpireTime < t)} |-> rows[id]]

\* SELECT entity_id, acs_url, acs_binding FROM service_providers WHERE entity_id = $1
GetServiceProvider(sps, entityID, dbErr) ==
    IF dbErr THEN [err |-> "db", descriptor |-> NoDescriptor]
    ELSE IF entityID \in DOMAIN sps
         THEN [err |-> "nil",
               descriptor |-> [EntityID |-> entityID,
                               Location |-> sps[entityID].acs_url,
                               Binding  |-> sps[entityID].acs_binding]]
         ELSE [err |-> "ErrNoRows", descriptor |-> NoDescriptor]

\* Mutant: an existing row is left as it is (ON CONFLICT DO NOTHING)
SaveServiceProviderKeepFirst(sps, t, entityID, acsURL, acsBinding) ==
    [e \in DOMAIN sps \cup {entityID} |->
        IF e \in DOMAIN sps THEN sps[e]
        ELSE [acs_url |-> acsURL, acs_binding |-> acsBinding, created_at |-> t]]

\* Mutant: the row is replaced, created_at included
SaveServiceProviderReplace(sps, t, entityID, acsURL, acsBinding) ==
    [e \in DOMAIN sps \cup {entityID} |->
        IF e = entityID
        THEN [acs_url |-> acsURL, acs_binding |-> acsBinding, created_at |-> t]
        ELSE sps[e]]

\* Mutant: on conflict only acs_url is updated
SaveServiceProviderUrlOnly(sps, t, entityID, acsURL, acsBinding) ==
    [e \in DOMAIN sps \cup {entityID} |->
        IF e # entityID THEN sps[e]
        ELSE IF e \in DOMAIN sps THEN [sps[e] EXCEPT !.acs_url = acsURL]
        ELSE [acs_url |-> acsURL, acs_binding |-> acsBinding, created_at |-> t]]

\* INSERT INTO service_providers (entity_id, acs_url, acs_binding)
\* VALUES ($1, $2, $3) ON CONFLICT (entity_id) DO UPDATE SET acs_url,
\* acs_binding: one statement; a new row takes created_at from the column's
\* DEFAULT NOW(), an existing row keeps its own. The statement makes no test
\* of its arguments, and the columns (TEXT NOT NULL) take the empty string.
SaveServiceProvider(sps, t, entityID, acsURL, acsBinding) ==
    [e \in DOMAIN sps \cup {entityID} |->
        IF e # entityID THEN sps[e]
        ELSE IF e \in DOMAIN sps
             THEN [sps[e] EXCEPT !.acs_url = acsURL, !.acs_binding = acsBinding]
             ELSE [acs_url |-> acsURL, acs_binding |-> acsBinding, created_at |-> t]]

\* d.db.Exec of the upsert and the error it returns
ExecSaveServiceProvider(sps, t, entityID, acsURL, acsBinding, dbErr) ==
    IF dbErr THEN [err |-> "db", rows |-> sps]
    ELSE [err |-> "nil",
          rows |-> SaveServiceProvider(sps, t, entityID, acsURL, acsBinding)]

----------------------------------------------------------------------------
(* Inputs of the handlers *)

\* The email claim of a verified ID token: absent, the empty string, a JSON
\* value that is not a string, or an address.
EmailClaims == {"missing", "", "nonstring"} \cup Emails

\* Lines 164-168: the state the SSO handler gives to the OP
BuildState(id, relayState) ==
    IF relayState # <<>> THEN id \o <<":">> \o relayState ELSE id

\* The states a browser can bring back: none, the ones the SSO handler
\* builds, and ones with an empty request ID.
CallbackStates ==
    {<<>>} \cup {BuildState(id, r) : id \in IDs, r \in RelayStates}
           \cup {<<":">> \o r : r \in RelayStates \ {<<>>}}

\* code: the query carries a non-empty code; exchange: the outcome of
\* oauth2Config.Exchange; verify: oidcVerifier.Verify succeeds; saveOK: the
\* INSERT of SaveSession succeeds.
CallbackInputs ==
    [code : BOOLEAN, exchange : {"fail", "noIdToken", "ok"}, verify : BOOLEAN,
     emailClaim : EmailClaims, saveOK : BOOLEAN, state : CallbackStates]

\* A SAMLRequest parameter in the URL of a POST request, next to the one of
\* its form
StrayQueries == {<<>>, <<"q", "b", "s", "=">>}

\* method and payload: the binding and the SAMLRequest the engine decodes the
\* AuthnRequest from (the query of a GET, the form of a POST); query: the
\* SAMLRequest parameter in the URL of a POST; dbErr: which of the request's
\* queries fails in the database, if any.
SSOInputs(ids) ==
    [method : {"GET", "POST"}, payload : Payloads, query : {<<>>},
     relayState : RelayStates,
     cookie : {NoCookie, <<>>, BogusId} \cup ids, dbErr : {"none", "sp", "session"}]

\* What a handler keeps in its local variables between two accesses to the
\* shared stores; inMap: the goroutine is inside a write of the pending map
\* (runtime mapassign or mapdelete), where specifications follow map writes
\* from their entry to their exit.
IdleLoc ==
    [sessionID |-> <<>>, state |-> <<>>, requestID |-> <<>>, relayState |-> <<>>,
     samlRequest |-> <<>>, pending |-> NoPending, inMap |-> FALSE]

\* issued: the states the SSO handler has sent to the OP so far, recorded
\* where login flows are followed from their start (FlowSpec); a callback of
\* a login flow brings one of them back.
\*
\* The last step a handler took: done tells whether the step wrote the
\* response; in is the request's input, known at the handler's first step.
NoResp ==
    [handler |-> "none", done |-> FALSE, status |-> 0,
     cookie |-> NoCookie, location |-> NoURL, session |-> NoSession,
     in |-> NoInput, state |-> <<>>, requestID |-> <<>>, relayState |-> <<>>,
     samlRequest |-> <<>>, pending |-> NoPending,
     contentType |-> "", body |-> NoBody, err |-> "nil", descriptor |-> NoDescriptor]

----------------------------------------------------------------------------
(* OIDC callback handler (server.go, handleOIDCCallback) *)

\* idToken.Claims(&claims): json.Unmarshal into struct{Email, Sub string}
Claims(emailClaim) ==
    [err   |-> emailClaim = "nonstring",
     Email |-> IF emailClaim \in {"missing", "nonstring"} THEN "" ELSE emailClaim]

\* Mutant: the check of the email is missing
CallbackChecksNoEmail(in) ==
    IF ~in.code THEN StatusBadRequest
    ELSE IF in.exchange = "fail" THEN StatusInternalServerError
    ELSE IF in.exchange = "noIdToken" THEN StatusInternalServerError
    ELSE IF ~in.verify THEN StatusInternalServerError
    ELSE IF Claims(in.emailClaim).err THEN StatusInternalServerError
    ELSE 0

\* Mutant: the email is checked before the token is verified
CallbackChecksEmailFirst(in) ==
    IF ~in.code THEN StatusBadRequest
    ELSE IF in.exchange = "fail" THEN StatusInternalServerError
    ELSE IF in.exchange = "noIdToken" THEN StatusInternalServerError
    ELSE IF Claims(in.emailClaim).err THEN StatusInternalServerError
    ELSE IF Claims(in.emailClaim).Email = "" THEN StatusForbidden
    ELSE IF ~in.verify THEN StatusInternalServerError
    ELSE 0

\* Steps 1-3 of the handler: the status of the first check that fails, 0 when
\* all pass.
CallbackChecks(in) ==
    IF ~in.code THEN StatusBadRequest
    ELSE IF in.exchange = "fail" THEN StatusInternalServerError
    ELSE IF in.exchange = "noIdToken" THEN StatusInternalServerError
    ELSE IF ~in.verify THEN StatusInternalServerError
    ELSE IF Claims(in.emailClaim).err THEN StatusInternalServerError
    ELSE IF Claims(in.emailClaim).Email = "" THEN StatusForbidden
    ELSE 0

\* Mutant: the session expires at the instant of its creation
NewSessionNoLifetime(t, email) ==
    [ID |-> SessionIdOf(t), CreateTime |-> t, ExpireTime |-> t,
     Index |-> SessionIdOf(t), NameID |-> email, UserEmail |-> email,
     UserCommonName |-> email, Groups |-> <<>>]

\* Step 4: the session the handler builds at clock reading t
NewSession(t, email) ==
    [ID |-> SessionIdOf(t), CreateTime |-> t, ExpireTime |-> t + SessionLifetime,
     Index |-> SessionIdOf(t), NameID |-> email, UserEmail |-> email,
     UserCommonName |-> email, Groups |-> <<>>]

RECURSIVE LastIndexOf(_, _, _)
LastIndexOf(s, c, i) ==
    IF i < 1 THEN 0
    ELSE IF s[i] = c THEN i
    ELSE LastIndexOf(s, c, i - 1)

\* Mutant: the state is split at its last colon
ParseStateLastColon(state) ==
    LET i == LastIndexOf(state, ":", Len(state)) IN
    IF i = 0 THEN [requestID |-> state, relayState |-> <<>>]
    ELSE [requestID  |-> SubSeq(state, 1, i - 1),
          relayState |-> SubSeq(state, i + 1, Len(state))]

\* Step 5: requestID and relayState parsed from the state
ParseState(state) ==
    IF state = <<>> THEN [requestID |-> <<>>, relayState |-> <<>>]
    ELSE LET parts == SplitN2(state) IN
         [requestID  |-> parts[1],
          relayState |-> IF Len(parts) > 1 THEN parts[2] ELSE <<>>]

SSOPath == "/saml/sso"

\* Mutant: the RelayState is set even when the stored one is empty
ReplayURLAlwaysRelay(pending) ==
    [path |-> SSOPath,
     rawQuery |-> Encode(TRUE, pending.relayState, pending.samlRequest),
     state |-> <<>>]

\* Mutant: the stored RelayState is appended to the query as it is
ReplayURLRawRelay(pending) ==
    [path |-> SSOPath,
     rawQuery |-> (IF pending.relayState # <<>>
                   THEN <<"RelayState", "=">> \o pending.relayState \o <<"&">>
                   ELSE <<>>)
                  \o <<"SAMLRequest", "=">> \o QueryEscape(pending.samlRequest),
     state |-> <<>>]

\* The redirect URL when a pending entry was found
ReplayURL(pending) ==
    [path |-> SSOPath,
     rawQuery |-> Encode(pending.relayState # <<>>, pending.relayState, pending.samlRequest),
     state |-> <<>>]

\* The redirect URL when no pending entry was found
FallbackURL(relayState) ==
    [path |-> SSOPath,
     rawQuery |-> IF relayState # <<>>
                  THEN <<"RelayState", "=">> \o QueryEscape(relayState)
                  ELSE <<>>,
     state |-> <<>>]

\* http.Error(w, ..., status)
CallbackError(in, status) ==
    [NoResp EXCEPT !.handler = "callback", !.done = TRUE,
                   !.status = status, !.in = in]

\* The rows after db.Exec of the INSERT: unchanged when the statement fails
ExecSaveSession(rows, session, saveOK) ==
    IF saveOK THEN SaveSession(rows, session) ELSE rows

\* Mutant: the handler ignores the error of the save
SaveErrIgnored(in) == FALSE

\* Line 240: err != nil after s.db.SaveSession
SaveErr(in) == ~in.saveOK

\* Lines 181-257: the checks, the session save, the cookie header and the
\* read of the state.
CallbackSave(w, in) ==
    /\ pc[w] = "idle"
    /\ LET st == CallbackChecks(in)
           session == NewSession(now, Claims(in.emailClaim).Email)
       IN IF st # 0
          THEN /\ resp' = CallbackError(in, st)
               /\ UNCHANGED <<sessions, pc, loc>>
          ELSE /\ sessions' = ExecSaveSession(sessions, session, in.saveOK)
               /\ IF SaveErr(in)
                  THEN /\ resp' = CallbackError(in, StatusInternalServerError)
                       /\ UNCHANGED <<pc, loc>>
                  ELSE /\ pc' = [pc EXCEPT ![w] = "cbLookup"]
                       /\ loc' = [loc EXCEPT ![w] =
                                    [IdleLoc EXCEPT !.sessionID = session.ID,
                                                    !.state = in.state]]
                       /\ resp' = [NoResp EXCEPT !.handler = "callback", !.in = in,
                                                 !.session = session]
    /\ UNCHANGED <<now, serviceProviders, pendingRequests, cookies, taken, issued>>

\* The handler writes its response: the cookie set at line 247 reaches the
\* browser with the redirect of line 293.
CallbackRedirect(w, location) ==
    /\ resp' = [NoResp EXCEPT !.handler = "callback", !.done = TRUE,
                              !.status = StatusFound, !.cookie = loc[w].sessionID,
                              !.location = location,
                              !.state = loc[w].state,
                              !.pending = loc[w].pending]
    /\ cookies' = cookies \cup {loc[w].sessionID}
    /\ pc' = [pc EXCEPT ![w] = "idle"]
    /\ loc' = [loc EXCEPT ![w] = IdleLoc]

\* Lines 258-276 and 284-289: the parse of the state and the lookup in the
\* pending map
CallbackLookup(w) ==
    /\ pc[w] = "cbLookup"
    /\ LET parsed == ParseState(loc[w].state)
           requestID == parsed.requestID
       IN IF requestID # <<>> /\ requestID \in DOMAIN pendingRequests
          THEN /\ pc' = [pc EXCEPT ![w] = "cbDelete"]
               /\ loc' = [loc EXCEPT ![w].pending =
                            [present |-> TRUE,
                             samlRequest |-> pendingRequests[requestID].samlRequest,
                             relayState |-> pendingRequests[requestID].relayState]]
               /\ taken' = [taken EXCEPT ![requestID] = @ + 1]
               /\ resp' = [NoResp EXCEPT !.handler = "callback"]
               /\ UNCHANGED cookies
          ELSE /\ CallbackRedirect(w, FallbackURL(parsed.relayState))
               /\ UNCHANGED taken
    /\ UNCHANGED <<now, sessions, serviceProviders, pendingRequests, issued>>

\* delete(s.pendingRequests, requestID)
MapDelete(m, k) == [x \in DOMAIN m \ {k} |-> m[x]]

\* Lines 277-283 and 293: the delete, the replay URL and the redirect
CallbackDelete(w) ==
    /\ pc[w] = "cbDelete"
    /\ pendingRequests' = MapDelete(pendingRequests, ParseState(loc[w].state).requestID)
    /\ CallbackRedirect(w, ReplayURL(loc[w].pending))
    /\ UNCHANGED <<now, sessions, serviceProviders, taken, issued>>

----------------------------------------------------------------------------
(* SAML SSO entry (server.go, route /saml/sso, sessionProviderAdapter and  *)
(* serviceProviderAdapter)                                                 *)

\* Mutant: only errors other than "no rows" become os.ErrNotExist
AdapterPassesNoRows(sps, serviceProviderID, dbErr) ==
    LET r == GetServiceProvider(sps, serviceProviderID, dbErr) IN
    IF r.err # "nil" /\ r.err # "ErrNoRows"
    THEN [err |-> "ErrNotExist", descriptor |-> NoDescriptor]
    ELSE [err |-> "nil", descriptor |-> r.descriptor]

\* serviceProviderAdapter.GetServiceProvider: every error of the registry
\* becomes os.ErrNotExist.
AdapterGetServiceProvider(sps, serviceProviderID, dbErr) ==
    LET r == GetServiceProvider(sps, serviceProviderID, dbErr) IN
    IF r.err # "nil"
    THEN [err |-> "ErrNotExist", descriptor |-> NoDescriptor]
    ELSE [err |-> "nil", descriptor |-> r.descriptor]

\* r.URL.Query().Get("SAMLRequest") and r.PostForm.Get("SAMLRequest")
QueryParam(in) == IF in.method = "GET" THEN in.payload ELSE in.query
FormParam(in) == IF in.method = "POST" THEN in.payload ELSE <<>>

\* Mutant: the row named by the cookie is used as it is found, whatever its
\* expiry and whatever the error of the query
CookieSessionUnchecked(rows, t, in) ==
    IF in.cookie \in DOMAIN rows THEN rows[in.cookie] ELSE NoSession

\* Mutant: the session is given to the engine under the name of another user
CookieSessionRenamed(rows, t, in) ==
    IF in.cookie # NoCookie /\ in.cookie # <<>>
    THEN LET got == GetSession(rows, t, in.cookie, in.dbErr = "session") IN
         IF got = NoSession THEN got ELSE [got EXCEPT !.NameID = "u2"]
    ELSE NoSession

\* Lines 136-145: the session named by the saml_session cookie
CookieSession(rows, t, in) ==
    IF in.cookie # NoCookie /\ in.cookie # <<>>
    THEN GetSession(rows, t, in.cookie, in.dbErr = "session")
    ELSE NoSession

\* Mutant: the SAMLRequest is looked for in the query string only
CapturedRequestQueryOnly(in) == QueryParam(in)

\* Lines 150-156: the SAMLRequest to store, query first, then the POST form
CapturedRequest(in) ==
    IF QueryParam(in) # <<>> THEN QueryParam(in) ELSE FormParam(in)

\* oauth2Config.AuthCodeURL(state)
AuthCodeURL(state) == [path |-> "authorize", rawQuery |-> <<>>, state |-> state]

\* map assignment s.pendingRequests[k] = v
MapPut(m, k, v) == [x \in DOMAIN m \cup {k} |-> IF x = k THEN v ELSE m[x]]

\* The SAML engine (crewjam/saml, not part of the repository's sources)
\* resolves the Issuer through the ServiceProviderProvider before it asks the
\* SessionProvider for a session, and fails the request as an unknown SP when
\* the provider reports an error.
EngineRefuses(sp) == sp.err # "nil"

EngineRefusalStatus == StatusForbidden

\* samlIdp.ServeSSO up to the session lookup: the engine resolves the Issuer
\* through the serviceProviderAdapter, then asks the sessionProviderAdapter
\* for a session; with a session it issues the assertion.
SSOLookup(w, in) ==
    /\ pc[w] = "idle"
    /\ LET sp == AdapterGetServiceProvider(serviceProviders, PayloadIssuer(in.payload),
                                           in.dbErr = "sp")
           session == CookieSession(sessions, now, in)
       IN IF EngineRefuses(sp)
          THEN /\ resp' = [NoResp EXCEPT !.handler = "sso", !.done = TRUE,
                                         !.status = EngineRefusalStatus, !.in = in]
               /\ UNCHANGED <<pc, loc>>
          ELSE IF session # NoSession
          THEN /\ resp' = [NoResp EXCEPT !.handler = "sso", !.done = TRUE,
                                         !.status = 200, !.in = in, !.session = session]
               /\ UNCHANGED <<pc, loc>>
          ELSE /\ pc' = [pc EXCEPT ![w] = "ssoPut"]
               /\ loc' = [loc EXCEPT ![w] =
                            [IdleLoc EXCEPT !.requestID = PayloadID(in.payload),
                                            !.relayState = in.relayState,
                                            !.samlRequest = CapturedRequest(in)]]
               /\ resp' = [NoResp EXCEPT !.handler = "sso", !.in = in]
    /\ UNCHANGED <<now, sessions, serviceProviders, pendingRequests, cookies, taken, issued>>

\* Lines 157-172: the write to the pending map, the state and the redirect
SSOPut(w) ==
    /\ pc[w] = "ssoPut"
    /\ IF loc[w].samlRequest # <<>>
       THEN /\ pendingRequests' =
                 MapPut(pendingRequests, loc[w].requestID,
                        [samlRequest |-> loc[w].samlRequest,
                         relayState  |-> loc[w].relayState])
            /\ taken' = [taken EXCEPT ![loc[w].requestID] = 0]
       ELSE UNCHANGED <<pendingRequests, taken>>
    /\ resp' = [NoResp EXCEPT !.handler = "sso", !.done = TRUE,
                              !.status = StatusFound,
                              !.location = AuthCodeURL(BuildState(loc[w].requestID,
                                                                  loc[w].relayState)),
                              !.requestID = loc[w].requestID,
                              !.relayState = loc[w].relayState,
                              !.samlRequest = loc[w].samlRequest]
    /\ pc' = [pc EXCEPT ![w] = "idle"]
    /\ loc' = [loc EXCEPT ![w] = IdleLoc]
    /\ UNCHANGED <<now, sessions, serviceProviders, cookies>>

----------------------------------------------------------------------------
(* Admin API (server.go, handleServiceProviderRegistration)                *)

\* The text of a URL is a sequence of tokens: the separators ":" and "/",
\* and the runs of characters between them.
URLTexts ==
    {<<>>,
     <<"https", ":", "/", "/", "t">>,
     <<"http", ":", "/", "/", "s", "/", "acs">>,
     <<"HTTPS", ":", "/", "/", "t">>,
     <<"http", ":", "/", "/", ":", "80", "/", "acs">>,
     <<"ftp", ":", "/", "/", "t">>,
     <<"t", "/", "acs">>,
     <<"https", ":", "/", "/", "/", "acs">>,
     <<":", "/", "/", "t">>}

\* strings.ToLower on the tokens of the model
ToLower(tok) == IF tok = "HTTPS" THEN "https" ELSE tok

IsDigits(tok) == tok \in {"80"}

\* net/url getScheme: the letters before the first ":"; a ":" at the start
\* is the error "missing protocol scheme"; text that reaches a "/" or its end
\* before any ":" has no scheme.
GetScheme(u) ==
    IF u = <<>> THEN [err |-> FALSE, scheme |-> "", rest |-> u]
    ELSE IF u[1] = ":" THEN [err |-> TRUE, scheme |-> "", rest |-> u]
    ELSE IF u[1] # "/" /\ Len(u) >= 2 /\ u[2] = ":"
         THEN [err |-> FALSE, scheme |-> u[1], rest |-> SubSeq(u, 3, Len(u))]
         ELSE [err |-> FALSE, scheme |-> "", rest |-> u]

\* net/url parseHost: the authority up to the next "/" becomes Host, port
\* included; what follows its last ":" must be digits or nothing.
ParseHost(authority) ==
    LET i == LastIndexOf(authority, ":", Len(authority)) IN
    IF i # 0 /\ i < Len(authority)
       /\ ~(Len(authority) = i + 1 /\ IsDigits(authority[i + 1]))
    THEN [err |-> TRUE, host |-> <<>>]
    ELSE [err |-> FALSE, host |-> authority]

\* url.Parse: the scheme in lower case, and the Host of an authority that
\* follows "//" (none when the text has no scheme and starts with "///").
UrlParse(u) ==
    LET g == GetScheme(u) IN
    IF g.err THEN [err |-> TRUE, Scheme |-> "", Host |-> <<>>]
    ELSE LET rest == g.rest
             slashes == Len(rest) >= 2 /\ rest[1] = "/" /\ rest[2] = "/"
             triple == Len(rest) >= 3 /\ rest[3] = "/"
             after == SubSeq(rest, 3, Len(rest))
             end == IndexOf(after, "/", 1)
             authority == IF end = 0 THEN after ELSE SubSeq(after, 1, end - 1)
             h == ParseHost(authority)
         IN IF slashes /\ (g.scheme # "" \/ ~triple)
            THEN IF h.err THEN [err |-> TRUE, Scheme |-> "", Host |-> <<>>]
                 ELSE [err |-> FALSE, Scheme |-> ToLower(g.scheme), Host |-> h.host]
            ELSE [err |-> FALSE, Scheme |-> ToLower(g.scheme), Host |-> <<>>]

\* Lines 357-366 (acs_url) and 368-376 (entity_id)
ValidURL(u) ==
    LET p == UrlParse(u) IN
    /\ ~(p.err \/ p.Scheme = "" \/ p.Host = <<>>)
    /\ ~(p.Scheme # "http" /\ p.Scheme # "https")

\* Content-Type headers of the requests
ContentTypes ==
    {"application/json", "Application/JSON; charset=utf-8",
     "application/x-www-form-urlencoded", "", "text/plain"}

\* strings.Contains(strings.ToLower(Content-Type), ...), lines 329-336
ContainsJSON(contentType) ==
    contentType \in {"application/json", "Application/JSON; charset=utf-8"}
ContainsForm(contentType) == contentType = "application/x-www-form-urlencoded"

\* Lines 322-348: the three fields as the handler receives them, or the
\* failure to read them. The request carries them in its body (fieldsIn =
\* "body", which parses or not) or in the query of its URL (with no body).
\* json.Decode reads the body only, and fails on an empty one. r.ParseForm
\* reads the query and, when the Content-Type is
\* application/x-www-form-urlencoded, the body too; without a Content-Type
\* it leaves the body unread (net/http parsePostForm takes the absent type
\* as application/octet-stream), so r.FormValue then finds only what the
\* query holds. A field that is not found is empty.
DecodeRegistration(in) ==
    LET fields == [err |-> FALSE, EntityID |-> in.entity_id, ACSURL |-> in.acs_url,
                   ACSBinding |-> in.acs_binding]
        nothing == [err |-> FALSE, EntityID |-> <<>>, ACSURL |-> <<>>, ACSBinding |-> ""]
        failure == [err |-> TRUE, EntityID |-> <<>>, ACSURL |-> <<>>, ACSBinding |-> ""]
    IN IF ContainsJSON(in.contentType)
       THEN IF in.fieldsIn = "body" /\ in.bodyOK THEN fields ELSE failure
       ELSE IF ContainsForm(in.contentType)
       THEN IF in.fieldsIn = "body" /\ ~in.bodyOK THEN failure ELSE fields
       ELSE IF in.contentType = ""
       THEN IF in.fieldsIn = "body" THEN nothing ELSE fields
       ELSE failure

\* Line 378-381
validBindings == {HTTPPostBinding, HTTPRedirectBinding}

\* Mutant: an empty acs_binding is written as it is
ACSBindingKeptEmpty(acsBinding) == acsBinding

\* Lines 382-385: req.ACSBinding as it is passed to the registry
ACSBinding(acsBinding) == IF acsBinding = "" THEN HTTPPostBinding ELSE acsBinding

\* Mutant: any acs_binding is taken
BindingUnchecked(acsBinding) == TRUE

\* Lines 382-388
BindingAccepted(acsBinding) == acsBinding = "" \/ acsBinding \in validBindings

\* Mutant: the method is looked at after the body
RegistrationChecksBodyFirst(in) ==
    LET req == DecodeRegistration(in) IN
    IF req.err THEN StatusBadRequest
    ELSE IF in.method # "POST" THEN StatusMethodNotAllowed
    ELSE IF req.EntityID = <<>> \/ req.ACSURL = <<>> THEN StatusBadRequest
    ELSE IF ~ValidURL(req.ACSURL) THEN StatusBadRequest
    ELSE IF ~ValidURL(req.EntityID) THEN StatusBadRequest
    ELSE IF ~BindingAccepted(req.ACSBinding) THEN StatusBadRequest
    ELSE 0

\* Lines 317-388: the status of the first check that fails, 0 when all pass
RegistrationChecks(in) ==
    LET req == DecodeRegistration(in) IN
    IF in.method # "POST" THEN StatusMethodNotAllowed
    ELSE IF req.err THEN StatusBadRequest
    ELSE IF req.EntityID = <<>> \/ req.ACSURL = <<>> THEN StatusBadRequest
    ELSE IF ~ValidURL(req.ACSURL) THEN StatusBadRequest
    ELSE IF ~ValidURL(req.EntityID) THEN StatusBadRequest
    ELSE IF ~BindingAccepted(req.ACSBinding) THEN StatusBadRequest
    ELSE 0

\* Mutant: the row is written before the binding is looked at
RegistrationWriteEarly(in) ==
    LET req == DecodeRegistration(in) IN
    /\ in.method = "POST" /\ ~req.err
    /\ ValidURL(req.ACSURL) /\ ValidURL(req.EntityID)

\* Line 391 is reached: every check has passed
RegistrationWrite(in) == RegistrationChecks(in) = 0

\* handleServiceProviderRegistration: the checks, then the upsert, then the
\* answer. The handler touches the registry once, with one statement.
RegistrationAnswer(sps, t, in) ==
    LET req == DecodeRegistration(in)
        failed == RegistrationChecks(in)
        saved == ExecSaveServiceProvider(sps, t, req.EntityID, req.ACSURL,
                                         ACSBinding(req.ACSBinding), in.dbErr)
        answer == [NoResp EXCEPT !.handler = "register", !.done = TRUE, !.in = in]
    IN [rows |-> IF RegistrationWrite(in) THEN saved.rows ELSE sps,
        resp |-> IF failed # 0 THEN [answer EXCEPT !.status = failed]
                 ELSE IF saved.err # "nil"
                      THEN [answer EXCEPT !.status = StatusInternalServerError]
                      ELSE [answer EXCEPT !.status = StatusCreated,
                                          !.contentType = "application/json",
                                          !.body = [status |-> "success",
                                                    message |-> "Service provider registered",
                                                    entity_id |-> req.EntityID]]]

handleServiceProviderRegistration(in) ==
    LET a == RegistrationAnswer(serviceProviders, now, in) IN
    /\ serviceProviders' = a.rows
    /\ resp' = a.resp
    /\ UNCHANGED <<now, sessions, pendingRequests, pc, loc, cookies, taken, issued>>

----------------------------------------------------------------------------
(* Specifications *)

\* Time passes
Tick ==
    /\ now < MaxTicks
    /\ now' = now + 1
    /\ resp' = NoResp
    /\ UNCHANGED <<sessions, serviceProviders, pendingRequests, pc, loc, cookies, taken, issued>>

EmptyMap == [x \in {} |-> 0]

\* The registry holds the SP "s"; the issuer "t" is unknown.
RegisteredSPs ==
    [e \in {"s"} |-> [acs_url |-> "https://s/acs", acs_binding |-> HTTPPostBinding,
                      created_at |-> 0]]

\* The state after NewServer and Initialize
Init ==
    /\ now = 0
    /\ sessions = EmptyMap
    /\ serviceProviders = RegisteredSPs
    /\ pendingRequests = EmptyMap
    /\ pc = [w \in Workers |-> "idle"]
    /\ loc = [w \in Workers |-> IdleLoc]
    /\ resp = NoResp
    /\ cookies = {}
    /\ taken = [id \in IDs |-> 0]
    /\ issued = {}

\* Callbacks in which at most one step fails
OneFailureInputs ==
    LET ok == [code |-> TRUE, exchange |-> "ok", verify |-> TRUE,
               emailClaim |-> "u1", saveOK |-> TRUE, state |-> <<"a">>]
    IN {[ok EXCEPT !.code = FALSE], [ok EXCEPT !.exchange = "fail"],
        [ok EXCEPT !.exchange = "noIdToken"], [ok EXCEPT !.verify = FALSE],
        [ok EXCEPT !.emailClaim = "nonstring"], [ok EXCEPT !.emailClaim = ""],
        [ok EXCEPT !.saveOK = FALSE]}
       \cup {[ok EXCEPT !.state = st] :
                st \in {<<"a">>, <<"b">>, BuildState(<<"a">>, <<"r", ":", "&">>)}}

ConcurrentSSOInputs(ids) ==
    [method : {"GET"}, payload : {p \in Payloads : PayloadIssuer(p) = "s"},
     query : {<<>>},
     relayState : RelayStates, cookie : {NoCookie} \cup ids, dbErr : {"none"}]

\* The bridge: concurrent handlers on the shared stores
Next ==
    \/ \E w \in Workers : \E in \in OneFailureInputs : CallbackSave(w, in)
    \/ \E w \in Workers : CallbackLookup(w)
    \/ \E w \in Workers : CallbackDelete(w)
    \/ \E w \in Workers : \E in \in ConcurrentSSOInputs(DOMAIN sessions) : SSOLookup(w, in)
    \/ \E w \in Workers : SSOPut(w) /\ UNCHANGED issued
    \/ Tick

Spec == Init /\ [][Next]_vars

\* The pending tables that SSO requests of the registered SP leave behind
PendingTables ==
    LET entry(id, r) == [samlRequest |-> <<"q", id[1], "s", "=">>, relayState |-> r]
        a == <<"a">>
        b == <<"b">>
        r == <<"r", ":", "&">>
    IN {EmptyMap,
        [id \in {a} |-> entry(id, r)],
        [id \in {a, b} |-> IF id = a THEN entry(id, <<>>) ELSE entry(id, r)]}

\* One callback at a time, on every input
CallbackInit ==
    /\ now = 0
    /\ sessions = EmptyMap
    /\ serviceProviders = RegisteredSPs
    /\ pendingRequests \in PendingTables
    /\ pc = [w \in Workers |-> "idle"]
    /\ loc = [w \in Workers |-> IdleLoc]
    /\ resp = NoResp
    /\ cookies = {}
    /\ taken = [id \in IDs |-> 0]
    /\ issued = {BuildState(id, pendingRequests[id].relayState) : id \in DOMAIN pendingRequests}

CallbackNext ==
    \/ \E in \in CallbackInputs : CallbackSave("w1", in)
    \/ CallbackLookup("w1")
    \/ CallbackDelete("w1")

CallbackSpec == CallbackInit /\ [][CallbackNext]_vars

\* The session tables that callbacks leave behind by the time t
SessionTables(t) ==
    {[id \in {SessionIdOf(c) : c \in created} |-> NewSession(id[2], "u1")] :
        created \in SUBSET (0..t)}

\* One SSO request at a time, on every input
SSOInit ==
    /\ now \in 0..MaxTime
    /\ sessions \in SessionTables(now)
    /\ serviceProviders = RegisteredSPs
    /\ pendingRequests = EmptyMap
    /\ pc = [w \in Workers |-> "idle"]
    /\ loc = [w \in Workers |-> IdleLoc]
    /\ resp = NoResp
    /\ cookies = DOMAIN sessions
    /\ taken = [id \in IDs |-> 0]
    /\ issued = {}

SSONext ==
    \/ \E in \in SSOInputs(DOMAIN sessions) : SSOLookup("w1", in)
    \/ SSOPut("w1") /\ UNCHANGED issued

SSOSpec == SSOInit /\ [][SSONext]_vars

\* The strings of at most n characters of the alphabet S
StringsUpTo(S, n) == UNION {[1..k -> S] : k \in 0..n}

\* AuthnRequest IDs are xs:ID values: they hold no colon
StateIDs == StringsUpTo({"a", "b"}, MaxLen)

StateRelayStates == StringsUpTo({"r", ":", "&"}, MaxLen)

\* Lines 164-168 on their own: the SSO handler builds the state
StateBuild ==
    /\ pc["w1"] = "idle"
    /\ pc' = [pc EXCEPT !["w1"] = "stateBuilt"]
    /\ loc' = [loc EXCEPT !["w1"].state =
                 BuildState(loc["w1"].requestID, loc["w1"].relayState)]
    /\ resp' = [NoResp EXCEPT !.handler = "sso", !.done = TRUE, !.status = StatusFound,
                              !.location = AuthCodeURL(BuildState(loc["w1"].requestID,
                                                                  loc["w1"].relayState))]
    /\ issued' = issued \cup {BuildState(loc["w1"].requestID, loc["w1"].relayState)}
    /\ UNCHANGED <<now, sessions, serviceProviders, pendingRequests, cookies, taken>>

\* Lines 257-266 on their own: the callback parses the state the OP returns
StateParse ==
    /\ pc["w1"] = "stateBuilt"
    /\ pc' = [pc EXCEPT !["w1"] = "stateParsed"]
    /\ resp' = [NoResp EXCEPT !.handler = "callback", !.state = loc["w1"].state,
                              !.requestID = ParseState(loc["w1"].state).requestID,
                              !.relayState = ParseState(loc["w1"].state).relayState]
    /\ UNCHANGED <<now, sessions, serviceProviders, pendingRequests, loc, cookies, taken, issued>>

\* The state of every request ID and RelayState, built and parsed
StateInit ==
    /\ now = 0
    /\ sessions = EmptyMap
    /\ serviceProviders = RegisteredSPs
    /\ pendingRequests = EmptyMap
    /\ pc = [w \in Workers |-> "idle"]
    /\ \E id \in StateIDs : \E r \in StateRelayStates :
          loc = [w \in Workers |->
                   IF w = "w1" THEN [IdleLoc EXCEPT !.requestID = id, !.relayState = r]
                   ELSE IdleLoc]
    /\ resp = NoResp
    /\ cookies = {}
    /\ taken = [id \in IDs |-> 0]
    /\ issued = {}

StateNext == StateBuild \/ StateParse

StateSpec == StateInit /\ [][StateNext]_vars

\* The SSO requests of login flows at the registered SP: AuthnRequest "a"
\* arrives by either binding, with or without RelayState; a POST may carry a
\* second SAMLRequest parameter in its URL.
FlowSSOInputs(ids) ==
    {in \in [method : {"GET", "POST"}, payload : {<<"q", "a", "s", "=">>},
             query : StrayQueries, relayState : RelayStates,
             cookie : {NoCookie} \cup ids, dbErr : {"none"}] :
        in.method = "GET" => in.query = <<>>}

\* The callbacks of login flows: the OP sends the browser back with a code
\* and with a state that the SSO handler gave it.
FlowCallbackInputs ==
    {in \in [code : {TRUE}, exchange : {"ok"}, verify : {TRUE}, emailClaim : {"u1"},
             saveOK : {TRUE}, state : CallbackStates] :
        in.state \in issued}

\* Login flows from their start: SSO request, detour to the OP, callback
FlowNext ==
    \/ \E w \in Workers : \E in \in FlowSSOInputs(DOMAIN sessions) : SSOLookup(w, in)
    \/ \E w \in Workers :
          /\ SSOPut(w)
          /\ issued' = issued \cup {BuildState(loc[w].requestID, loc[w].relayState)}
    \/ \E w \in Workers : \E in \in FlowCallbackInputs : CallbackSave(w, in)
    \/ \E w \in Workers : CallbackLookup(w)
    \/ \E w \in Workers : CallbackDelete(w)
    \/ Tick

FlowSpec == Init /\ [][FlowNext]_vars

\* Callbacks of several users: every email claim, the save failing or not
SessionCallbackInputs ==
    [code : {TRUE}, exchange : {"ok"}, verify : {TRUE}, emailClaim : EmailClaims,
     saveOK : BOOLEAN, state : {<<>>}]

\* The SSO requests that present a cookie the callback has set
SessionSSOInputs(ids) ==
    [method : {"GET"}, payload : {<<"q", "a", "s", "=">>}, query : {<<>>},
     relayState : {<<>>}, cookie : ids, dbErr : {"none"}]

\* The session store under concurrent logins while time passes
SessionNext ==
    \/ \E w \in Workers : \E in \in SessionCallbackInputs : CallbackSave(w, in)
    \/ \E w \in Workers : CallbackLookup(w)
    \/ \E w \in Workers : \E in \in SessionSSOInputs(DOMAIN sessions) : SSOLookup(w, in)
    \/ \E w \in Workers : SSOPut(w) /\ UNCHANGED issued
    \/ Tick

SessionSpec == Init /\ [][SessionNext]_vars

\* A call of Database.CleanupExpiredSessions: one DELETE statement, which
\* changes nothing when db.Exec fails.
Sweep(ok) ==
    /\ sessions' = IF ok THEN CleanupExpiredSessions(sessions, now) ELSE sessions
    /\ resp' = [NoResp EXCEPT !.handler = "sweep", !.done = TRUE,
                              !.in = [method |-> "sweep", ok |-> ok]]
    /\ UNCHANGED <<now, serviceProviders, pendingRequests, pc, loc, cookies, taken, issued>>

\* Successful callbacks, which save sessions
SweepCallbackInputs ==
    [code : {TRUE}, exchange : {"ok"}, verify : {TRUE}, emailClaim : {"u1"},
     saveOK : {TRUE}, state : {<<>>}]

\* The session store at any time, with rows of any age
SweepInit == SSOInit

\* The sweep next to handlers that save and get sessions; a browser may
\* present any cookie it was given, whether the row is still there or not.
SweepNext ==
    \/ \E w \in Workers : \E in \in SweepCallbackInputs : CallbackSave(w, in)
    \/ \E w \in Workers : CallbackLookup(w)
    \/ \E w \in Workers : \E in \in SessionSSOInputs(cookies) : SSOLookup(w, in)
    \/ \E w \in Workers : SSOPut(w) /\ UNCHANGED issued
    \/ \E ok \in BOOLEAN : Sweep(ok)
    \/ Tick

SweepSpec == SweepInit /\ [][SweepNext]_vars

\* The SSO requests of one browser: AuthnRequests of the registered SP, with
\* the cookie the bridge gave it, if any
BridgeSSOInputs(ids) ==
    [method : {"GET"}, payload : {p \in Payloads : PayloadIssuer(p) = "s"},
     query : {<<>>}, relayState : {<<>>}, cookie : {NoCookie} \cup ids,
     dbErr : {"none"}]

\* The SSO handler sends its redirect to the OP
BridgeSSOPut ==
    /\ SSOPut("w1")
    /\ issued' = issued \cup {BuildState(loc["w1"].requestID, loc["w1"].relayState)}

\* Everything the running bridge does: the routes of SetupRoutes serve the
\* requests that arrive, and time passes. Nothing in NewServer, Initialize,
\* SetupRoutes or Start starts a goroutine or a timer besides the HTTP server.
BridgeNext ==
    \/ \E in \in BridgeSSOInputs(DOMAIN sessions) : SSOLookup("w1", in)
    \/ BridgeSSOPut
    \/ \E in \in FlowCallbackInputs : CallbackSave("w1", in)
    \/ CallbackLookup("w1")
    \/ CallbackDelete("w1")
    \/ Tick

\* A handler that has started runs to its end and the clock advances;
\* whether a request arrives at all is up to the browsers.
BridgeFairness ==
    /\ WF_vars(BridgeSSOPut)
    /\ WF_vars(CallbackLookup("w1"))
    /\ WF_vars(CallbackDelete("w1"))
    /\ WF_vars(Tick)

BridgeSpec == SSOInit /\ [][BridgeNext]_vars /\ BridgeFairness

\* The goroutine enters the write of the pending map: the assignment of
\* line 158 or the delete of line 277. Server has no mutex and the handlers
\* take no lock, so nothing makes it wait for another goroutine's write.
MapWriteEnter(w) ==
    /\ pc[w] \in {"ssoPut", "cbDelete"}
    /\ ~loc[w].inMap
    /\ loc' = [loc EXCEPT ![w].inMap = TRUE]
    /\ resp' = [NoResp EXCEPT !.handler = "map"]
    /\ UNCHANGED <<now, sessions, serviceProviders, pendingRequests, pc, cookies, taken, issued>>

\* Another goroutine is inside a write of the map
OtherInMap(w) == \E o \in Workers \ {w} : loc[o].inMap

\* An access to the map that overlaps another goroutine's write is a data
\* race; the outcome the Go runtime produces when it notices it is the fatal
\* error "concurrent map writes" (or "concurrent map read and map write"),
\* which ends the process.
MapFatal(w) ==
    /\ loc[w].inMap \/ pc[w] = "cbLookup"
    /\ OtherInMap(w)
    /\ pc' = [o \in Workers |-> "dead"]
    /\ resp' = [NoResp EXCEPT !.handler = "fatal", !.done = TRUE]
    /\ UNCHANGED <<now, sessions, serviceProviders, pendingRequests, loc, cookies, taken, issued>>

\* AuthnRequests "a" and "b" of the registered SP, from browsers without a
\* session
MapSSOInputs ==
    [method : {"GET"}, payload : {p \in Payloads : PayloadIssuer(p) = "s"},
     query : {<<>>}, relayState : {<<>>}, cookie : {NoCookie}, dbErr : {"none"}]

\* Concurrent handlers, with the writes of the pending map followed from
\* entry to exit
MapNext ==
    \/ \E w \in Workers : \E in \in MapSSOInputs : SSOLookup(w, in)
    \/ \E w \in Workers : MapWriteEnter(w)
    \/ \E w \in Workers :
          /\ loc[w].inMap
          /\ SSOPut(w)
          /\ issued' = issued \cup {BuildState(loc[w].requestID, loc[w].relayState)}
    \/ \E w \in Workers : \E in \in FlowCallbackInputs : CallbackSave(w, in)
    \/ \E w \in Workers : CallbackLookup(w)
    \/ \E w \in Workers : loc[w].inMap /\ CallbackDelete(w)
    \/ \E w \in Workers : MapFatal(w)

MapSpec == Init /\ [][MapNext]_vars

\* The calls of the registry's upsert: two SPs, each with one of two
\* (acs_url, acs_binding) pairs, and calls with one empty argument.
RegistryCalls ==
    {[entityID |-> e, acsURL |-> p[1], acsBinding |-> p[2]] :
        e \in {<<"s">>, <<"t">>},
        p \in {<<<<"u">>, HTTPPostBinding>>, <<<<"v">>, HTTPRedirectBinding>>}}
    \cup {[entityID |-> <<>>, acsURL |-> <<"u">>, acsBinding |-> HTTPPostBinding],
          [entityID |-> <<"s">>, acsURL |-> <<>>, acsBinding |-> HTTPPostBinding],
          [entityID |-> <<"s">>, acsURL |-> <<"u">>, acsBinding |-> ""]}

\* A caller of Database.SaveServiceProvider
DbSaveServiceProvider(c, dbErr) ==
    LET r == ExecSaveServiceProvider(serviceProviders, now, c.entityID, c.acsURL,
                                     c.acsBinding, dbErr) IN
    /\ serviceProviders' = r.rows
    /\ resp' = [NoResp EXCEPT !.handler = "SaveServiceProvider", !.done = TRUE,
                              !.in = c, !.err = r.err]
    /\ UNCHANGED <<now, sessions, pendingRequests, pc, loc, cookies, taken, issued>>

\* A caller of Database.GetServiceProvider
DbGetServiceProvider(entityID, dbErr) ==
    LET r == GetServiceProvider(serviceProviders, entityID, dbErr) IN
    /\ resp' = [NoResp EXCEPT !.handler = "GetServiceProvider", !.done = TRUE,
                              !.in = [entityID |-> entityID],
                              !.err = r.err, !.descriptor = r.descriptor]
    /\ UNCHANGED <<now, sessions, serviceProviders, pendingRequests, pc, loc, cookies, taken, issued>>

\* The registry after InitSchema: no row
RegistryInit ==
    /\ now = 0
    /\ sessions = EmptyMap
    /\ serviceProviders = EmptyMap
    /\ pendingRequests = EmptyMap
    /\ pc = [w \in Workers |-> "idle"]
    /\ loc = [w \in Workers |-> IdleLoc]
    /\ resp = NoResp
    /\ cookies = {}
    /\ taken = [id \in IDs |-> 0]
    /\ issued = {}

\* Calls of the registry's two operations, from any number of callers: each
\* is one SQL statement, and the statements of concurrent callers take
\* effect one after the other.
RegistryNext ==
    \/ \E c \in RegistryCalls : \E dbErr \in BOOLEAN : DbSaveServiceProvider(c, dbErr)
    \/ \E c \in RegistryCalls : \E dbErr \in BOOLEAN : DbGetServiceProvider(c.entityID, dbErr)
    \/ Tick

RegistrySpec == RegistryInit /\ [][RegistryNext]_vars

\* A registration request that passes every check
GoodRegistration ==
    [method |-> "POST", contentType |-> "application/json",
     fieldsIn |-> "body", bodyOK |-> TRUE,
     entity_id |-> <<"https", ":", "/", "/", "t">>,
     acs_url |-> <<"https", ":", "/", "/", "t">>,
     acs_binding |-> HTTPPostBinding, dbErr |-> FALSE]

ACSBindings == {"", HTTPPostBinding, HTTPRedirectBinding, "HTTP-POST", "invalid-binding"}

\* The body of a request, parsing or not, or its URL's query with no body
FieldCarriers ==
    {[fieldsIn |-> "body", bodyOK |-> TRUE], [fieldsIn |-> "body", bodyOK |-> FALSE],
     [fieldsIn |-> "query", bodyOK |-> TRUE]}

\* Registration requests: every combination of method, Content-Type, place
\* of the fields, entity_id scheme and database failure; every URL text as
\* entity_id and as acs_url; every acs_binding.
RegistrationInputs ==
    {[GoodRegistration EXCEPT !.method = m, !.contentType = ct,
                              !.fieldsIn = c.fieldsIn, !.bodyOK = c.bodyOK,
                              !.entity_id = e, !.dbErr = dbErr] :
        m \in {"POST", "GET"}, ct \in ContentTypes, c \in FieldCarriers,
        e \in {GoodRegistration.entity_id, <<"ftp", ":", "/", "/", "t">>},
        dbErr \in BOOLEAN}
    \cup {[GoodRegistration EXCEPT !.entity_id = e, !.dbErr = dbErr] :
             e \in URLTexts, dbErr \in BOOLEAN}
    \cup {[GoodRegistration EXCEPT !.acs_url = a, !.dbErr = dbErr] :
             a \in URLTexts, dbErr \in BOOLEAN}
    \cup {[GoodRegistration EXCEPT !.contentType = ct, !.acs_binding = b, !.dbErr = dbErr] :
             ct \in {"application/json", "application/x-www-form-urlencoded"},
             b \in ACSBindings, dbErr \in BOOLEAN}
    \cup {[GoodRegistration EXCEPT !.entity_id = <<"ftp", ":", "/", "/", "t">>,
                                   !.acs_binding = b] : b \in ACSBindings}

RegistrationNext ==
    \/ \E in \in RegistrationInputs : handleServiceProviderRegistration(in)
    \/ \E e \in URLTexts : DbGetServiceProvider(e, FALSE)

RegistrationSpec == RegistryInit /\ [][RegistrationNext]_vars

\* Registrations of two SPs, with and without acs_binding, one that fails a
\* check and one whose write fails
EnrolInputs ==
    {[GoodRegistration EXCEPT !.entity_id = e, !.acs_binding = b] :
        e \in {GoodRegistration.entity_id, <<"http", ":", "/", "/", "s", "/", "acs">>},
        b \in {"", HTTPPostBinding, HTTPRedirectBinding}}
    \cup {[GoodRegistration EXCEPT !.acs_binding = "invalid-binding"],
          [GoodRegistration EXCEPT !.dbErr = TRUE]}

\* AuthnRequests whose Issuer is one of the two SPs or a third one
EnrolSSOInputs ==
    [method : {"GET"},
     payload : {<<"q", "a", e, "=">> :
                   e \in {GoodRegistration.entity_id,
                          <<"http", ":", "/", "/", "s", "/", "acs">>,
                          <<"https", ":", "/", "/", "s">>}},
     query : {<<>>}, relayState : {<<>>}, cookie : {NoCookie}, dbErr : {"none", "sp"}]

\* The Admin API and the SSO entry on one bridge
EnrolNext ==
    \/ \E in \in EnrolInputs : handleServiceProviderRegistration(in)
    \/ \E in \in EnrolSSOInputs : SSOLookup("w1", in)
    \/ SSOPut("w1") /\ UNCHANGED issued

EnrolSpec == RegistryInit /\ [][EnrolNext]_vars

\* The first request of a login: an AuthnRequest of the registered SP, by
\* either binding, from a browser that has no cookie
LoginSSOInputs ==
    {in \in [method : {"GET", "POST"}, payload : {p \in Payloads : PayloadIssuer(p) = "s"},
             query : StrayQueries, relayState : RelayStates,
             cookie : {NoCookie}, dbErr : {"none"}] :
        in.method = "GET" => in.query = <<>>}

\* A browser arrives at /saml/sso
LoginStart ==
    /\ resp = NoResp /\ issued = {}
    /\ \E in \in LoginSSOInputs : SSOLookup("w1", in)

\* The browser follows the redirect of line 171 to the OP, the OP
\* authenticates the user and sends the browser to /callback with a code and
\* the state it was given.
LoginCallback ==
    /\ resp.handler = "sso" /\ resp.done /\ resp.status = StatusFound
    /\ \E email \in Emails :
           CallbackSave("w1", [code |-> TRUE, exchange |-> "ok", verify |-> TRUE,
                               emailClaim |-> email, saveOK |-> TRUE,
                               state |-> resp.location.state])

\* The browser follows the redirect of line 293: a GET of the replay URL,
\* with the cookie of line 247
LoginReplay ==
    /\ resp.handler = "callback" /\ resp.done /\ resp.status = StatusFound
    /\ QueryHas(resp.location.rawQuery, "SAMLRequest")
    /\ SSOLookup("w1", [method |-> "GET",
                        payload |-> QueryGet(resp.location.rawQuery, "SAMLRequest"),
                        query |-> <<>>,
                        relayState |-> QueryGet(resp.location.rawQuery, "RelayState"),
                        cookie |-> resp.cookie, dbErr |-> "none"])

\* Time passes before the browser arrives
LoginTick == resp = NoResp /\ issued = {} /\ Tick

\* One login, from the browser's first request to the end of its redirects
LoginNext ==
    \/ LoginStart
    \/ BridgeSSOPut
    \/ LoginCallback
    \/ CallbackLookup("w1")
    \/ CallbackDelete("w1")
    \/ LoginReplay
    \/ LoginTick

\* The browser makes its request and follows every redirect at once, and a
\* handler that has started runs to its end.
LoginFairness ==
    /\ WF_vars(LoginStart)
    /\ WF_vars(BridgeSSOPut)
    /\ WF_vars(LoginCallback)
    /\ WF_vars(CallbackLookup("w1"))
    /\ WF_vars(CallbackDelete("w1"))
    /\ WF_vars(LoginReplay)

LoginSpec == Init /\ [][LoginNext]_vars /\ LoginFairness

\* Two browsers, one per goroutine: the first submits its AuthnRequest without
\* RelayState and logs in as u1, the second with RelayState and as u2.
PairRelayState(w) == IF w = "w1" THEN <<>> ELSE <<"r", ":", "&">>

PairEmail(w) == IF w = "w1" THEN "u1" ELSE "u2"

\* The browser's one SSO request: a GET with an AuthnRequest of the
\* registered SP, whose ID is any
PairStart(w) ==
    /\ \A st \in issued : ParseState(st).relayState # PairRelayState(w)
    /\ \E id \in IDs :
           SSOLookup(w, [method |-> "GET", payload |-> <<"q", id[1], "s", "=">>,
                         query |-> <<>>, relayState |-> PairRelayState(w),
                         cookie |-> NoCookie, dbErr |-> "none"])

PairSSOPut(w) ==
    /\ SSOPut(w)
    /\ issued' = issued \cup {BuildState(loc[w].requestID, loc[w].relayState)}

\* The OP sends the browser back with the state the bridge gave to it
PairCallback(w) ==
    /\ \A id \in DOMAIN sessions : sessions[id].UserEmail # PairEmail(w)
    /\ \E st \in issued :
           /\ ParseState(st).relayState = PairRelayState(w)
           /\ CallbackSave(w, [code |-> TRUE, exchange |-> "ok", verify |-> TRUE,
                               emailClaim |-> PairEmail(w), saveOK |-> TRUE,
                               state |-> st])

\* Two login flows in flight at the same time
PairNext ==
    \/ \E w \in Workers : PairStart(w)
    \/ \E w \in Workers : PairSSOPut(w)
    \/ \E w \in Workers : PairCallback(w)
    \/ \E w \in Workers : CallbackLookup(w)
    \/ \E w \in Workers : CallbackDelete(w)
    \/ Tick

PairSpec == Init /\ [][PairNext]_vars

----------------------------------------------------------------------------
(* Example service (example-saml-service/main.go,                          *)
(* fetchIDPMetadataWithRetry); durations in seconds                        *)

\* Most attempts counted; further attempts leave the count where it is
MaxAttempts == 16

maxWait == 30

initialDelay == 1

\* The errors of samlsp.FetchMetadata: the request fails, the status is not
\* 200, the body is not an EntityDescriptor
FetchErrors == {"request", "status", "xml"}

\* Lines 61-64: the next delay, doubled and capped at the time remaining
NextDelay(delay, elapsed) ==
    IF delay * 2 > maxWait - elapsed THEN maxWait - elapsed ELSE delay * 2

\* Lines 44-47: the locals of the function in the goroutine of main; err is
\* the error of the last fetch, attempts counts the calls of FetchMetadata.
RetryInit ==
    /\ pc = [main |-> "fetch"]
    /\ loc = [main |-> [delay |-> initialDelay, elapsed |-> 0, err |-> "nil",
                        attempts |-> 0]]
    /\ resp = NoResp
    /\ now = 0
    /\ sessions = EmptyMap
    /\ serviceProviders = EmptyMap
    /\ pendingRequests = EmptyMap
    /\ cookies = {}
    /\ taken = [id \in IDs |-> 0]
    /\ issued = {}

\* Lines 50-53: one call of samlsp.FetchMetadata; the function returns the
\* metadata when there is no error
RetryFetch(err) ==
    /\ pc["main"] = "fetch"
    /\ loc' = [loc EXCEPT !["main"].err = err,
                          !["main"].attempts = IF @ < MaxAttempts THEN @ + 1 ELSE @]
    /\ pc' = [pc EXCEPT !["main"] = IF err = "nil" THEN "returned" ELSE "check"]
    /\ UNCHANGED <<now, sessions, serviceProviders, pendingRequests, resp, cookies,
                   taken, issued>>

\* Lines 55-57: the panic when the next delay would pass maxWait
RetryCheck ==
    /\ pc["main"] = "check"
    /\ pc' = [pc EXCEPT !["main"] =
                IF loc["main"].elapsed + loc["main"].delay > maxWait
                THEN "panicked" ELSE "sleep"]
    /\ UNCHANGED <<now, sessions, serviceProviders, pendingRequests, loc, resp, cookies,
                   taken, issued>>

\* Lines 59-65: time.Sleep(delay), then elapsed and delay for the next turn
RetrySleep ==
    /\ pc["main"] = "sleep"
    /\ LET elapsed == loc["main"].elapsed + loc["main"].delay IN
       loc' = [loc EXCEPT !["main"].elapsed = elapsed,
                          !["main"].delay = NextDelay(loc["main"].delay, elapsed),
                          !["main"].err = "nil"]
    /\ pc' = [pc EXCEPT !["main"] = "fetch"]
    /\ UNCHANGED <<now, sessions, serviceProviders, pendingRequests, resp, cookies,
                   taken, issued>>

RetryNext ==
    \/ \E err \in FetchErrors \cup {"nil"} : RetryFetch(err)
    \/ RetryCheck
    \/ RetrySleep

\* The goroutine of main runs on: nothing else is scheduled in the process
\* before the function returns.
RetryFairness == WF_vars(RetryNext)

RetrySpec == RetryInit /\ [][RetryNext]_vars /\ RetryFairness

----------------------------------------------------------------------------
(* Properties *)

\* C1: when callbacks take the same request_id concurrently, exactly one of
\* them receives the stored entry: no entry put in the pending table is
\* handed to more than one callback. (Spec)
C1_TakeYieldsToOne == \A id \in IDs : taken[id] <= 1

KnownSP(in) == PayloadIssuer(in.payload) \in DOMAIN serviceProviders /\ in.dbErr # "sp"

\* The last step was the first step of an SSO request
SSOArrived == resp.handler = "sso" /\ resp.in # NoInput

\* C2: get(id) returns no session when the row is missing or its expire_time
\* is <= now, the row being still present, and returns the row only when
\* expire_time > now; the SSO handler sees exactly that. (SSOSpec)
C2_ExpiryGate ==
    /\ \A id \in DOMAIN sessions \cup {BogusId} :
          LET got == GetSession(sessions, now, id, FALSE) IN
          IF id \in DOMAIN sessions /\ sessions[id].ExpireTime > now
          THEN got = sessions[id]
          ELSE got = NoSession
    /\ (SSOArrived /\ KnownSP(resp.in) /\ resp.in.dbErr = "none"
          /\ resp.in.cookie \in DOMAIN sessions \cup {BogusId})
       => (resp.session = NoSession
             <=> (resp.in.cookie \notin DOMAIN sessions
                    \/ sessions[resp.in.cookie].ExpireTime <= now))

C2_Witness ==
    /\ SSOArrived /\ KnownSP(resp.in) /\ resp.in.dbErr = "none"
    /\ resp.in.cookie \in DOMAIN sessions
    /\ sessions[resp.in.cookie].ExpireTime = now
    /\ resp.session = NoSession

\* C3: the SSO handler returns a session, and an assertion is issued, only
\* if the request carries a non-empty saml_session cookie that names a stored
\* session with expire_time > now; the session returned is that one. (SSOSpec)
C3_SessionOnlyForValidCookie ==
    (resp.handler = "sso" /\ (resp.session # NoSession \/ resp.status = 200))
    => /\ resp.in.cookie # NoCookie
       /\ resp.in.cookie # <<>>
       /\ resp.in.cookie \in DOMAIN sessions
       /\ sessions[resp.in.cookie].ExpireTime > now
       /\ resp.session = sessions[resp.in.cookie]
       /\ resp.status = 200
       /\ resp.location = NoURL

C3_Witness ==
    /\ resp.handler = "sso" /\ resp.done /\ resp.status = 200
    /\ resp.session # NoSession
    /\ resp.session.ID = resp.in.cookie

\* C4: an AuthnRequest whose Issuer has no row in the registry, or whose
\* registry lookup fails, is refused: the request ends with a 4xx, without a
\* redirect to the OP, without a session or assertion, and nothing of it is
\* stored in the pending table. (SSOSpec)
C4_UnknownSPRefused ==
    /\ (SSOArrived /\ ~KnownSP(resp.in))
       => /\ resp.done
          /\ resp.status \in 400..499
          /\ resp.location = NoURL
          /\ resp.session = NoSession
          /\ \A w \in Workers : pc[w] = "idle"
    /\ \A id \in DOMAIN pendingRequests :
          PayloadIssuer(pendingRequests[id].samlRequest) \in DOMAIN serviceProviders

C4_Witness ==
    /\ SSOArrived /\ resp.done
    /\ PayloadIssuer(resp.in.payload) \notin DOMAIN serviceProviders
    /\ resp.in.dbErr = "none"
    /\ resp.in.cookie \in DOMAIN sessions
    /\ sessions[resp.in.cookie].ExpireTime > now
    /\ resp.status = EngineRefusalStatus

\* C5: every saml_session cookie the callback has emitted carries the id of
\* a session saved before the cookie was emitted, and an SSO request that
\* carries it before the session expires obtains that session. (Spec)
C5_CookieNamesSavedSession ==
    /\ [][\A c \in cookies' \ cookies : c \in DOMAIN sessions /\ sessions[c].ID = c]_vars
    /\ [](\A c \in cookies : c \in DOMAIN sessions /\ sessions[c].ID = c)
    /\ []((resp.handler = "callback" /\ resp.cookie # NoCookie)
            => resp.cookie \in cookies)
    /\ []((SSOArrived /\ resp.in.cookie \in cookies /\ KnownSP(resp.in)
             /\ resp.in.dbErr = "none"
             /\ resp.in.cookie \in DOMAIN sessions
             /\ sessions[resp.in.cookie].ExpireTime > now)
            => (resp.done /\ resp.session.ID = resp.in.cookie
                  /\ resp.session = sessions[resp.in.cookie]))

C5_Witness ==
    /\ SSOArrived /\ resp.done
    /\ resp.in.cookie \in cookies
    /\ resp.session.ID = resp.in.cookie

\* The request passes every check before the save
ReachesSave(in) ==
    in.code /\ in.exchange = "ok" /\ in.verify /\ in.emailClaim \in Emails

\* C6: when the save of the session fails, the callback answers 500, sets no
\* cookie and sends no redirect. (CallbackSpec)
C6_SaveFailure ==
    (resp.handler = "callback" /\ resp.in # NoInput /\ ReachesSave(resp.in)
       /\ ~resp.in.saveOK)
    => /\ resp.done
       /\ resp.status = 500
       /\ resp.cookie = NoCookie
       /\ resp.location = NoURL
       /\ \A w \in Workers : pc[w] = "idle"

C6_Witness ==
    /\ resp.handler = "callback" /\ resp.in # NoInput /\ ReachesSave(resp.in)
    /\ ~resp.in.saveOK
    /\ resp.status = StatusInternalServerError
    /\ ParseState(resp.in.state).requestID \in DOMAIN pendingRequests

\* C7: the callback does not touch the pending table before its session is
\* saved: a callback that ends in 400, 403 or 500 leaves the table as it was,
\* and a callback step that changes the table belongs to a callback whose
\* session is in the store. (Spec)
C7_PendingUntouchedBeforeSave ==
    [][/\ (resp'.handler = "callback" /\ resp'.done /\ resp'.status \in {400, 403, 500})
          => pendingRequests' = pendingRequests
       /\ (resp'.handler = "callback" /\ pendingRequests' # pendingRequests)
          => (resp'.status = 302 /\ resp'.cookie \in DOMAIN sessions)]_vars

C7_Witness ==
    /\ resp.handler = "callback" /\ resp.done /\ resp.in # NoInput
    /\ resp.status = StatusInternalServerError
    /\ ~resp.in.saveOK
    /\ ParseState(resp.in.state).requestID \in DOMAIN pendingRequests

EmptyEmail(in) ==
    in.code /\ in.exchange = "ok" /\ in.verify /\ in.emailClaim \in {"missing", ""}

\* C8: when the verified ID token has an empty or missing email, the callback
\* answers 403, creates no session row and sets no cookie. (CallbackSpec)
C8_EmptyEmailForbidden ==
    [][(resp'.handler = "callback" /\ resp'.in # NoInput /\ EmptyEmail(resp'.in))
       => /\ resp'.done
          /\ resp'.status = 403
          /\ resp'.cookie = NoCookie
          /\ sessions' = sessions
          /\ cookies' = cookies
          /\ pc' = pc]_vars

C8_Witness ==
    /\ resp.handler = "callback" /\ resp.in # NoInput /\ EmptyEmail(resp.in)
    /\ resp.in.emailClaim = "missing"
    /\ resp.in.saveOK
    /\ resp.status = StatusForbidden

\* The outcomes the step order of the claim allows for a request; 302 stands
\* for "goes on to the redirect". The claim names no step for an email claim
\* that is not a string: either reading of it is allowed here.
C9_OriginalOutcomes(in) ==
    IF ~in.code THEN {400}
    ELSE IF in.exchange = "fail" THEN {500}
    ELSE IF in.exchange = "noIdToken" THEN {500}
    ELSE IF ~in.verify THEN {500}
    ELSE IF in.emailClaim \in {"missing", ""} THEN {403}
    ELSE (IF in.emailClaim = "nonstring" THEN {403} ELSE {})
            \cup (IF ~in.saveOK THEN {500} ELSE {302})

C9_AmendedOutcome(in) ==
    IF ~in.code THEN 400
    ELSE IF in.exchange = "fail" THEN 500
    ELSE IF in.exchange = "noIdToken" THEN 500
    ELSE IF ~in.verify THEN 500
    ELSE IF in.emailClaim = "nonstring" THEN 500
    ELSE IF in.emailClaim \in {"missing", ""} THEN 403
    ELSE IF ~in.saveOK THEN 500
    ELSE 302

C9_Outcome == IF resp.done THEN resp.status ELSE 302

C9_Redirects ==
    (resp.handler = "callback" /\ resp.done /\ resp.in = NoInput)
    => (resp.status = 302 /\ resp.location.path = "/saml/sso")

\* C9 as stated: the status of a callback is that of its first failing step
\* in the order: no code 400, exchange 500, id_token 500, verification 500,
\* empty email 403, save 500, otherwise 302 under /saml/sso. (CallbackSpec)
C9_StatusByFirstFailure_Original ==
    /\ (resp.handler = "callback" /\ resp.in # NoInput)
       => C9_Outcome \in C9_OriginalOutcomes(resp.in)
    /\ C9_Redirects

\* C9 amended: the same order with one more step between the verification
\* and the email: claims that do not parse (an email that is not a string)
\* give 500. (CallbackSpec)
C9_StatusByFirstFailure ==
    /\ (resp.handler = "callback" /\ resp.in # NoInput)
       => C9_Outcome = C9_AmendedOutcome(resp.in)
    /\ C9_Redirects

C9_Witness ==
    /\ resp.handler = "callback" /\ resp.in # NoInput
    /\ resp.in.code /\ resp.in.exchange = "ok" /\ resp.in.verify
    /\ resp.in.emailClaim = "nonstring"
    /\ resp.in.saveOK
    /\ resp.done /\ resp.status = StatusInternalServerError

\* The request_id and relay_state that a state carries
C10_Compose(id, r) ==
    IF r = <<>> THEN id ELSE id \o <<":">> \o r

C10_Carried(state) ==
    CHOOSE pr \in (IDs \cup {<<>>}) \X RelayStates : state = C10_Compose(pr[1], pr[2])

C10_URL(state, table, url) ==
    LET id == C10_Carried(state)[1]
        r  == C10_Carried(state)[2]
        q  == url.rawQuery
    IN /\ url.path = "/saml/sso"
       /\ IF id # <<>> /\ id \in DOMAIN table
          THEN /\ QueryGet(q, "SAMLRequest") = table[id].samlRequest
               /\ IF table[id].relayState # <<>>
                  THEN QueryGet(q, "RelayState") = table[id].relayState
                  ELSE ~QueryHas(q, "RelayState")
          ELSE IF r # <<>>
          THEN /\ ~QueryHas(q, "SAMLRequest")
               /\ QueryGet(q, "RelayState") = r
          ELSE q = <<>>

\* C10: after the save, the replay URL carries the stored SAMLRequest and,
\* only if it is non-empty, the stored RelayState, when the request_id of the
\* state is non-empty and in the pending table; otherwise only the RelayState
\* of the state, if there is one; otherwise it is the bare /saml/sso.
\* (CallbackSpec)
C10_ReplayURL ==
    [][(resp'.handler = "callback" /\ resp'.done /\ resp'.status = 302)
       => C10_URL(resp'.state, pendingRequests, resp'.location)]_vars

C10_Witness ==
    /\ resp.handler = "callback" /\ resp.done /\ resp.status = StatusFound
    /\ resp.pending.present
    /\ resp.pending.relayState = <<>>
    /\ C10_Carried(resp.state)[2] # <<>>
    /\ QueryHas(resp.location.rawQuery, "SAMLRequest")
    /\ ~QueryHas(resp.location.rawQuery, "RelayState")

\* C11: for every request ID without a colon and every RelayState, the state
\* the SSO handler builds, split at its first colon by the callback, gives
\* back exactly that request ID and that RelayState. (StateSpec)
C11_StateRoundTrip ==
    pc["w1"] = "stateParsed"
    => /\ resp.requestID = loc["w1"].requestID
       /\ resp.relayState = loc["w1"].relayState

C11_Witness ==
    /\ pc["w1"] = "stateParsed"
    /\ loc["w1"].requestID = <<"a", "b">>
    /\ loc["w1"].relayState = <<":", "r">>
    /\ resp.relayState = <<":", "r">>
    /\ resp.state = <<"a", "b", ":", ":", "r">>

\* C12: a pending entry is consumed on first match: a callback that replays
\* the entry of a request_id finds it in the table and leaves the table
\* without it, so that a callback which comes after a replay, with no new
\* SSO request for that ID in between, sends no SAMLRequest; each stored
\* SAMLRequest is replayed at most once. (Spec)
C12_ReplayedAtMostOnce ==
    [][(resp'.handler = "callback" /\ resp'.done /\ resp'.pending.present)
       => LET id == ParseState(resp'.state).requestID IN
          /\ id \in DOMAIN pendingRequests
          /\ id \notin DOMAIN pendingRequests']_vars

\* The callback of a login flow has sent its redirect
FlowRedirected ==
    /\ resp.handler = "callback" /\ resp.done /\ resp.status = StatusFound
    /\ resp.state \in issued

C13_RelayStateKept ==
    LET r == C10_Carried(resp.state)[2]
        q == resp.location.rawQuery
    IN IF r # <<>> THEN QueryGet(q, "RelayState") = r
       ELSE ~QueryHas(q, "RelayState")

C14_ReplayedRequestIsOriginal ==
    (FlowRedirected /\ QueryHas(resp.location.rawQuery, "SAMLRequest"))
    => LET p == QueryGet(resp.location.rawQuery, "SAMLRequest") IN
       /\ p \in Payloads
       /\ PayloadID(p) = C10_Carried(resp.state)[1]

\* C15: when the SSO handler finds no valid session for an AuthnRequest, it
\* returns no session to the engine, and after it returns the pending table
\* maps the AuthnRequest ID to the SAMLRequest as received and the request's
\* RelayState, and the response is a 302 to the authorize URL of the OP whose
\* state starts with the AuthnRequest ID. (FlowSpec)
C15_DetourStoresRequest ==
    /\ (SSOArrived /\ KnownSP(resp.in)
          /\ (resp.in.cookie \notin DOMAIN sessions
                \/ sessions[resp.in.cookie].ExpireTime <= now))
       => /\ ~resp.done
          /\ resp.session = NoSession
          /\ \E w \in Workers :
                /\ pc[w] = "ssoPut"
                /\ loc[w].requestID = PayloadID(resp.in.payload)
                /\ loc[w].relayState = resp.in.relayState
    /\ (resp.handler = "sso" /\ resp.done /\ resp.status = StatusFound)
       => LET id == resp.requestID IN
          /\ id \in DOMAIN pendingRequests
          /\ pendingRequests[id].samlRequest \in Payloads
          /\ PayloadID(pendingRequests[id].samlRequest) = id
          /\ pendingRequests[id].relayState = resp.relayState
          /\ resp.location.path = "authorize"
          /\ SubSeq(resp.location.state, 1, Len(id)) = id
          /\ resp.session = NoSession

\* The last step was a callback's successful save of its session
SessionSaved ==
    resp.handler = "callback" /\ resp.in # NoInput /\ ~resp.done

\* C16: sessions are never mutated: every successful callback inserts a row
\* whose id is the id of no row already in the store, and no callback changes
\* a field of an existing row, also when two callbacks create their sessions
\* at the same clock reading. (SessionSpec)
C16_SessionsNeverMutated ==
    [][/\ \A id \in DOMAIN sessions : sessions'[id] = sessions[id]
       /\ (resp'.handler = "callback" /\ resp'.in # NoInput /\ ~resp'.done)
          => /\ resp'.session.ID \notin DOMAIN sessions
             /\ resp'.session.ID \in DOMAIN sessions']_vars

\* C17: every session row the callback creates has user_email = name_id =
\* the non-empty email of the verified ID token, index = id and expire_time >
\* create_time, and stops being valid ten minutes (SessionLifetime) after its
\* creation. (SessionSpec)
C17_SessionRow ==
    /\ \A id \in DOMAIN sessions :
          LET row == sessions[id] IN
          /\ row.ID = id
          /\ row.Index = row.ID
          /\ row.UserEmail = row.NameID
          /\ row.NameID \in Emails
          /\ row.ExpireTime > row.CreateTime
          /\ row.ExpireTime = row.CreateTime + SessionLifetime
    /\ SessionSaved
       => /\ resp.session.ID \in DOMAIN sessions
          /\ sessions[resp.session.ID].NameID = resp.in.emailClaim
          /\ sessions[resp.session.ID].UserEmail = resp.in.emailClaim
          /\ sessions[resp.session.ID].CreateTime = now
    /\ (SSOArrived /\ resp.in.cookie \in DOMAIN sessions)
       => (resp.session # NoSession
             <=> now < sessions[resp.in.cookie].CreateTime + SessionLifetime)

C17_Witness ==
    /\ SSOArrived /\ resp.in.cookie \in DOMAIN sessions
    /\ sessions[resp.in.cookie].NameID = "u2"
    /\ now = sessions[resp.in.cookie].CreateTime + SessionLifetime
    /\ resp.session = NoSession

\* The last step was a sweep whose DELETE was executed
Swept == resp.handler = "sweep" /\ resp.in.ok

\* C19: a sweep removes exactly the rows with expire_time < now: the rows
\* with expire_time >= now stay as they are, those with expire_time > now are
\* still returned by get, also to an SSO request that comes next, and a
\* second sweep at the same time removes nothing more; sweeps interleave with
\* the saves and gets of concurrent handlers. (SweepSpec)
C19_SweepExact ==
    [][/\ (resp'.handler = "sweep" /\ resp'.in.ok)
          => /\ DOMAIN sessions' =
                   {id \in DOMAIN sessions : sessions[id].ExpireTime >= now}
             /\ \A id \in DOMAIN sessions' : sessions'[id] = sessions[id]
             /\ \A id \in DOMAIN sessions :
                   sessions[id].ExpireTime > now
                   => GetSession(sessions', now, id, FALSE) = sessions[id]
             /\ Swept => sessions' = sessions
       /\ (Swept /\ resp'.handler = "sso" /\ resp'.in # NoInput
             /\ resp'.in.cookie \in cookies)
          => (resp'.session # NoSession
                <=> (resp'.in.cookie \in DOMAIN sessions
                       /\ sessions[resp'.in.cookie].ExpireTime > now))]_vars

C19_Witness ==
    /\ Swept
    /\ cookies \ DOMAIN sessions # {}
    /\ \E id \in DOMAIN sessions : sessions[id].ExpireTime = now
    /\ \E id \in DOMAIN sessions : sessions[id].ExpireTime > now
    /\ \E w \in Workers : pc[w] # "idle"

\* C18: every session row whose expire_time has passed is eventually removed
\* from the session store by the running bridge. (BridgeSpec)
C18_ExpiredRowsRemoved ==
    \A t \in 0..MaxTime :
       (SessionIdOf(t) \in DOMAIN sessions /\ sessions[SessionIdOf(t)].ExpireTime < now)
       ~> (SessionIdOf(t) \notin DOMAIN sessions)

\* C20: a pending entry that no callback matches is eventually dropped: no
\* request ID stays in the pending table forever. (BridgeSpec)
C20_PendingEntryDropped ==
    \A id \in IDs :
       (id \in DOMAIN pendingRequests) ~> (id \notin DOMAIN pendingRequests)

\* C21: the accesses of concurrent handlers to the pending table exclude
\* each other: at most one goroutine is inside a write of the map, the
\* process never dies of a concurrent map access, and when no handler is
\* running the table holds exactly the entries that were put and not taken.
\* (MapSpec)
C21_MapAccessExclusive ==
    /\ Cardinality({w \in Workers : loc[w].inMap}) <= 1
    /\ \A w \in Workers : pc[w] # "dead"
    /\ (\A w \in Workers : pc[w] = "idle")
       => \A id \in IDs :
             id \in DOMAIN pendingRequests <=> (id \in issued /\ taken[id] = 0)

\* A call of the registry's upsert has just returned without an error
SPSaved == resp.handler = "SaveServiceProvider" /\ resp.err = "nil"

\* C22: after an upsert, get(entity_id) returns exactly the three values of
\* the call; the upsert adds at most the row of its entity_id and touches no
\* other row, and no other step changes the registry, so each entity_id has
\* one row, holding the values of its most recent upsert. (RegistrySpec)
C22_RegistryRoundTrip ==
    [][IF SPSaved'
       THEN LET c == resp'.in
                g == GetServiceProvider(serviceProviders', c.entityID, FALSE)
            IN /\ g.err = "nil"
               /\ g.descriptor = [EntityID |-> c.entityID, Location |-> c.acsURL,
                                  Binding |-> c.acsBinding]
               /\ DOMAIN serviceProviders' = DOMAIN serviceProviders \cup {c.entityID}
               /\ \A e \in DOMAIN serviceProviders \ {c.entityID} :
                     serviceProviders'[e] = serviceProviders[e]
       ELSE serviceProviders' = serviceProviders]_vars

\* An upsert has replaced the values of a row written at an earlier time,
\* with another SP in the registry
C22_Witness ==
    /\ SPSaved
    /\ serviceProviders[resp.in.entityID].created_at < now
    /\ resp.in.acsURL = <<"v">>
    /\ Cardinality(DOMAIN serviceProviders) >= 2

\* C23: an upsert leaves the created_at of an existing row as it is, and a
\* new row's created_at is the time of its insertion. (RegistrySpec)
C23_CreatedAtKept ==
    [][/\ \A e \in DOMAIN serviceProviders :
             /\ e \in DOMAIN serviceProviders'
             /\ serviceProviders'[e].created_at = serviceProviders[e].created_at
       /\ \A e \in DOMAIN serviceProviders' \ DOMAIN serviceProviders :
             serviceProviders'[e].created_at = now]_vars

\* An upsert on a row that was inserted at an earlier time
C23_Witness ==
    /\ SPSaved
    /\ now > 0
    /\ serviceProviders[resp.in.entityID].created_at = 0

\* The (acs_url, acs_binding) pairs that the calls pass
CallPairs == {<<c.acsURL, c.acsBinding>> : c \in RegistryCalls}

\* C24: the (acs_url, acs_binding) pair of every registry row is the pair
\* of one upsert call, never the acs_url of one call with the acs_binding of
\* another. (RegistrySpec)
C24_NoPartialUpdate ==
    \A e \in DOMAIN serviceProviders :
        <<serviceProviders[e].acs_url, serviceProviders[e].acs_binding>> \in CallPairs

\* Both SPs have a row, one with each pair, and one of them was written
\* over after its insertion; no call passes the mixed pairs
C24_Witness ==
    /\ <<<<"v">>, HTTPPostBinding>> \notin CallPairs
    /\ <<<<"u">>, HTTPRedirectBinding>> \notin CallPairs
    /\ {<<"s">>, <<"t">>} \subseteq DOMAIN serviceProviders
    /\ serviceProviders[<<"s">>].acs_url = <<"v">>
    /\ serviceProviders[<<"t">>].acs_url = <<"u">>
    /\ SPSaved
    /\ serviceProviders[resp.in.entityID].created_at < now

\* C25: a call of the registry's upsert with an empty entity_id, acs_url or
\* acs_binding returns an error and writes no row. (RegistrySpec)
C25_EmptyFieldsRejected ==
    [][(/\ resp'.handler = "SaveServiceProvider"
        /\ \/ resp'.in.entityID = <<>>
           \/ resp'.in.acsURL = <<>>
           \/ resp'.in.acsBinding = "")
       => /\ resp'.err # "nil"
          /\ serviceProviders' = serviceProviders]_vars

\* The last step was a registration request
Registered == resp.handler = "register"

\* C26: the Admin API accepts as acs_binding exactly the HTTP-POST and
\* HTTP-Redirect URNs and the empty value, which is written to the row as
\* HTTP-POST; a request with any other acs_binding is answered with 400.
\* (RegistrationSpec)
C26_BindingValues ==
    Registered =>
        LET in == resp.in
            accepted == in.acs_binding \in {"", HTTPPostBinding, HTTPRedirectBinding}
        IN /\ resp.status = StatusCreated
              => /\ accepted
                 /\ serviceProviders[in.entity_id].acs_binding =
                       (IF in.acs_binding = "" THEN HTTPPostBinding ELSE in.acs_binding)
           /\ (in.method = "POST" /\ ~accepted) => resp.status = StatusBadRequest
           /\ (\E b \in ACSBindings : \E ct \in ContentTypes \ {"text/plain", ""} :
                  in = [GoodRegistration EXCEPT !.acs_binding = b, !.contentType = ct])
              => (resp.status = StatusCreated <=> accepted)

\* A request without acs_binding was answered with 201 and its row holds
\* HTTP-POST
C26_Witness ==
    /\ Registered
    /\ resp.status = StatusCreated
    /\ resp.in.acs_binding = ""
    /\ serviceProviders[resp.in.entity_id].acs_binding = HTTPPostBinding

\* The host of an authority: what stands before its port
Hostname(host) ==
    LET i == LastIndexOf(host, ":", Len(host)) IN
    IF i = 0 THEN host ELSE SubSeq(host, 1, i - 1)

\* The value is empty, does not parse, or has no scheme, no host, or a
\* scheme other than http and https
NotHTTPURL(u) ==
    LET p == UrlParse(u) IN
    \/ u = <<>>
    \/ p.err
    \/ p.Scheme = ""
    \/ Hostname(p.Host) = <<>>
    \/ p.Scheme \notin {"http", "https"}

\* C27: the Admin API answers 400 whenever entity_id or acs_url is empty,
\* has no scheme, has no host, or has a scheme other than http or https;
\* only values with such a scheme and a non-empty host pass.
\* (RegistrationSpec)
C27_URLValidation ==
    (Registered /\ resp.in.method = "POST"
     /\ (NotHTTPURL(resp.in.entity_id) \/ NotHTTPURL(resp.in.acs_url)))
    => resp.status = StatusBadRequest

\* C28: a registration request answered with 400 or 405 leaves the registry
\* as it was, and the registry changes only in a registration answered with
\* 201. (RegistrationSpec)
C28_RejectedWritesNothing ==
    [][/\ (Registered' /\ resp'.status \in {StatusBadRequest, StatusMethodNotAllowed})
          => serviceProviders' = serviceProviders
       /\ serviceProviders' # serviceProviders
          => (Registered' /\ resp'.status = StatusCreated)]_vars

\* A request about a registered SP, with another acs_url, was answered
\* with 400
C28_Witness ==
    /\ Registered
    /\ resp.status = StatusBadRequest
    /\ resp.in.method = "POST"
    /\ resp.in.entity_id \in DOMAIN serviceProviders
    /\ serviceProviders[resp.in.entity_id].acs_url # resp.in.acs_url

\* C29: the status of a registration request is that of its first failing
\* step: 405 for a method other than POST whatever the body; 400 for a body
\* that does not parse, an unsupported Content-Type or a failed field, URL
\* or binding validation; 500 for a failed registry write; otherwise 201
\* with Content-Type application/json and a body with status "success" and
\* the submitted entity_id. (RegistrationSpec)
C29_FirstFailingStep ==
    Registered =>
        LET in == resp.in
            req == DecodeRegistration(in)
            unsupported == ~(ContainsJSON(in.contentType) \/ ContainsForm(in.contentType)
                             \/ in.contentType = "")
            invalid == \/ req.EntityID = <<>> \/ req.ACSURL = <<>>
                       \/ ~ValidURL(req.EntityID) \/ ~ValidURL(req.ACSURL)
                       \/ req.ACSBinding \notin {"", HTTPPostBinding, HTTPRedirectBinding}
        IN IF in.method # "POST" THEN resp.status = StatusMethodNotAllowed
           ELSE IF req.err \/ unsupported \/ invalid
                THEN resp.status = StatusBadRequest
           ELSE IF in.dbErr THEN resp.status = StatusInternalServerError
           ELSE /\ resp.status = StatusCreated
                /\ resp.contentType = "application/json"
                /\ resp.body.status = "success"
                /\ resp.body.entity_id = in.entity_id

\* A GET whose body does not parse, whose entity_id is not an http URL and
\* whose registry write would fail was answered with 405
C29_Witness ==
    /\ Registered
    /\ resp.in.method = "GET"
    /\ ~resp.in.bodyOK
    /\ ~ValidURL(resp.in.entity_id)
    /\ resp.in.dbErr
    /\ resp.status = StatusMethodNotAllowed

\* C30: after a registration answered with 201, get(entity_id) returns the
\* submitted acs_url and the submitted acs_binding, HTTP-POST when it was
\* left out, and an AuthnRequest of that entity_id that follows is not
\* refused as coming from an unknown SP. (EnrolSpec)
C30_RegisteredSPKnown ==
    /\ [](Registered /\ resp.status = StatusCreated
          => GetServiceProvider(serviceProviders, resp.in.entity_id, FALSE) =
               [err |-> "nil",
                descriptor |->
                    [EntityID |-> resp.in.entity_id,
                     Location |-> resp.in.acs_url,
                     Binding |-> IF resp.in.acs_binding = "" THEN HTTPPostBinding
                                 ELSE resp.in.acs_binding]])
    /\ [][(/\ Registered /\ resp.status = StatusCreated
           /\ resp'.handler = "sso" /\ resp'.in # NoInput
           /\ PayloadIssuer(resp'.in.payload) = resp.in.entity_id
           /\ resp'.in.dbErr = "none")
          => resp'.status # EngineRefusalStatus]_vars

\* An AuthnRequest of a registered SP, registered without acs_binding, is
\* on its way to the OP
C30_Witness ==
    /\ SSOArrived
    /\ resp.in.dbErr = "none"
    /\ PayloadIssuer(resp.in.payload) \in DOMAIN serviceProviders
    /\ serviceProviders[PayloadIssuer(resp.in.payload)].acs_binding = HTTPPostBinding
    /\ resp.status # EngineRefusalStatus
    /\ pc["w1"] = "ssoPut"

\* C31: a request whose body carries (entity_id, acs_url, acs_binding) gets
\* the same status and leaves the same registry whether it is sent as
\* application/json or as application/x-www-form-urlencoded, and a request
\* without Content-Type gets what the form-encoded one gets.
\* (RegistrationSpec)
C31_EncodingsAgree ==
    [][(/\ resp'.handler = "register"
        /\ resp'.in.fieldsIn = "body" /\ resp'.in.bodyOK
        /\ resp'.in.contentType \in {"application/json", ""})
       => LET form == RegistrationAnswer(serviceProviders, now,
                          [resp'.in EXCEPT !.contentType = "application/x-www-form-urlencoded"])
          IN /\ resp'.status = form.resp.status
             /\ serviceProviders' = form.rows]_vars

\* The request of the last step, from a registered SP, names no session
\* that the store returns: no cookie, an empty cookie, an unknown id, an
\* expired row, or a failing query
NoSessionFound ==
    /\ SSOArrived
    /\ KnownSP(resp.in)
    /\ \/ resp.in.cookie \in {NoCookie, <<>>}
       \/ resp.in.cookie \notin DOMAIN sessions
       \/ sessions[resp.in.cookie].ExpireTime <= now
       \/ resp.in.dbErr = "session"

\* C32: whenever the session lookup of an SSO request yields no session, the
\* handler writes no answer of its own at that point and goes on to the
\* redirect, and that next step answers 302 to the authorize URL. (SSOSpec)
C32_NoSessionRestartsFlow ==
    /\ [](NoSessionFound => (~resp.done /\ pc["w1"] = "ssoPut"))
    /\ [][pc["w1"] = "ssoPut"
          => /\ resp'.done
             /\ resp'.status = StatusFound
             /\ resp'.location.path = "authorize"
             /\ pc'["w1"] = "idle"]_vars

\* The cookie names a session that has not expired, and the store's query
\* fails
C32_Witness ==
    /\ NoSessionFound
    /\ resp.in.cookie \in DOMAIN sessions
    /\ sessions[resp.in.cookie].ExpireTime > now
    /\ resp.in.dbErr = "session"
    /\ pc["w1"] = "ssoPut"

\* C33: when the cookie of an SSO request resolves to a valid session, the
\* handler returns exactly that stored session, writes no redirect, and
\* leaves the pending table and the session store as they were, also when
\* the pending table holds an entry for the request's ID. (SSOSpec)
C33_ValidSessionReturned ==
    [][(/\ resp'.handler = "sso" /\ resp'.in # NoInput
        /\ KnownSP(resp'.in)
        /\ resp'.in.dbErr = "none"
        /\ resp'.in.cookie \in DOMAIN sessions
        /\ sessions[resp'.in.cookie].ExpireTime > now)
       => /\ resp'.done
          /\ resp'.session = sessions[resp'.in.cookie]
          /\ resp'.session.ID = resp'.in.cookie
          /\ resp'.location = NoURL
          /\ resp'.status # StatusFound
          /\ pendingRequests' = pendingRequests
          /\ sessions' = sessions
          /\ pc' = pc]_vars

\* A session was returned for a request whose ID has an entry in the
\* pending table
C33_Witness ==
    /\ SSOArrived
    /\ resp.session # NoSession
    /\ resp.session.ID = resp.in.cookie
    /\ PayloadID(resp.in.payload) \in DOMAIN pendingRequests

\* C34: a login for a registered SP completes: the flow reaches the state
\* where the engine is given the session for the AuthnRequest that started
\* it, with that request's RelayState, and once the callback has set the
\* cookie the bridge does not send the browser to the OP again. (LoginSpec)
C34_LoginCompletes ==
    /\ <>(\E st \in issued :
            /\ resp.handler = "sso" /\ resp.done
            /\ resp.session # NoSession
            /\ PayloadID(resp.in.payload) = ParseState(st).requestID
            /\ resp.in.relayState = ParseState(st).relayState)
    /\ [][cookies # {}
          => ~(resp'.handler = "sso" /\ resp'.done /\ resp'.status = StatusFound)]_vars

\* C35: concurrent login flows are independent: whatever the AuthnRequest
\* IDs of two flows in flight, the replay URL that a callback builds from the
\* entry it finds carries the SAMLRequest and the RelayState that the
\* callback's own browser submitted, never those of the other flow. (PairSpec)
C35_FlowsIndependent ==
    (resp.handler = "callback" /\ resp.done /\ resp.status = StatusFound
       /\ resp.state \in issued /\ resp.pending.present)
    => LET own == ParseState(resp.state)
           q   == resp.location.rawQuery
       IN /\ QueryGet(q, "SAMLRequest") = <<"q", own.requestID[1], "s", "=">>
          /\ IF own.relayState # <<>>
             THEN QueryGet(q, "RelayState") = own.relayState
             ELSE ~QueryHas(q, "RelayState")

\* The first request of a login arrives by binding m
C36_Arrived(m) ==
    /\ resp.handler = "sso" /\ resp.in # NoInput
    /\ resp.in.cookie = NoCookie /\ resp.in.method = m

\* The request that the callback's redirect makes the browser send
C36_Replayed ==
    /\ resp.handler = "sso" /\ resp.in # NoInput
    /\ resp.in.cookie # NoCookie

\* What the handler stores and answers is what it would for the same
\* payload in the query string of a GET
C36_StoredLikeQuery ==
    [][(pc["w1"] = "ssoPut" /\ pc'["w1"] = "idle")
       => LET g  == [resp.in EXCEPT !.method = "GET", !.query = <<>>]
              id == PayloadID(g.payload)
          IN /\ id \in DOMAIN pendingRequests'
             /\ pendingRequests'[id] = [samlRequest |-> CapturedRequest(g),
                                        relayState  |-> g.relayState]
             /\ resp'.status = StatusFound
             /\ resp'.location = AuthCodeURL(BuildState(id, g.relayState))]_vars

\* The stored payload comes back to /saml/sso by the binding it arrived on
C36_SameTransport ==
    \A m \in {"GET", "POST"} :
        [](C36_Arrived(m) => [](C36_Replayed => resp.in.method = m))

\* C36: the SSO handler treats a SAMLRequest received in the POST form
\* exactly like the same payload received in the query string (same pending
\* entry, same state, same redirect), and after the OIDC detour the stored
\* payload is handed back to /saml/sso over the transport, query or form, on
\* which it arrived. (LoginSpec)
C36_FormLikeQuery == C36_StoredLikeQuery /\ C36_SameTransport

C38_SweepInvisible ==
    [][resp'.handler = "sweep"
       => /\ \A id \in DOMAIN sessions \cup cookies \cup {BogusId} :
             \A t \in now..(MaxTime + SessionLifetime) :
                \A dbErr \in BOOLEAN :
                   GetSession(sessions', t, id, dbErr) = GetSession(sessions, t, id, dbErr)
          /\ \A id \in DOMAIN sessions :
                GetSession(sessions, now, id, FALSE) # NoSession
                => (id \in DOMAIN sessions' /\ sessions'[id] = sessions[id])
          /\ \A id \in DOMAIN sessions \ DOMAIN sessions' :
                GetSession(sessions, now, id, FALSE) = NoSession]_vars

\* A sweep has deleted the row of a cookie and left a row that get returns
C38_Witness ==
    /\ resp.handler = "sweep" /\ resp.done /\ resp.in.ok
    /\ \E c \in cookies : c \notin DOMAIN sessions
    /\ \E id \in DOMAIN sessions : GetSession(sessions, now, id, FALSE) # NoSession

\* C39: fetchIDPMetadataWithRetry terminates: if every metadata fetch fails,
\* the loop gives up with the panic after a bounded number of attempts
\* instead of retrying forever. (RetrySpec)
C39_RetryGivesUp ==
    [](pc["main"] # "returned") => <>(pc["main"] = "panicked")

\* C40: the accumulated sleep time never exceeds maxWait, and every retry
\* sleeps a strictly positive delay: 1s at first, then the double of the
\* delay before, capped at the time remaining before maxWait. (RetrySpec)
C40_SleepWithinMaxWait ==
    /\ [](loc["main"].elapsed <= maxWait)
    /\ [](pc["main"] = "fetch" /\ loc["main"].attempts = 0
            => loc["main"].delay = initialDelay)
    /\ [][pc["main"] = "sleep"
          => /\ loc["main"].delay > 0
             /\ loc'["main"].elapsed = loc["main"].elapsed + loc["main"].delay
             /\ loc'["main"].delay =
                   IF 2 * loc["main"].delay <= maxWait - loc'["main"].elapsed
                   THEN 2 * loc["main"].delay
                   ELSE maxWait - loc'["main"].elapsed]_vars

====
